---- MODULE Spec2Model ----
(***************************************************************************)
(* Model of tracker/utils/pdf_text_extractor.py: the invoice extraction    *)
(* entry point extract_from_bytes, the backend orchestration in            *)
(* extract_text_from_pdf, the coordinate-based table extractor             *)
(* _extract_items_with_coordinates and the text line-item parser           *)
(* extract_line_items_from_text / parse_item_multiline.                    *)
(*                                                                         *)
(* Strings are tuples of one-character strings.  An optional value is a    *)
(* tuple of length 0 (None) or 1 (the value).  Amounts are integers in     *)
(* hundredths.  The PDF libraries are external: each call into them is a   *)
(* nondeterministic choice among the outcomes the call can have.           *)
(***************************************************************************)
EXTENDS Integers, Sequences, FiniteSets, TLC

\* ------------------------------------------------------------ bounds
MaxBytes == 5
MaxPages == 2
MaxTokens == 3
MaxY == 3
MaxLines == 3

\* ------------------------------------------------------------ helpers
None == <<>>
Some(v) == <<v>>

Range(s) == {s[i] : i \in 1..Len(s)}

RECURSIVE Flatten(_)
Flatten(ss) == IF ss = <<>> THEN <<>> ELSE Head(ss) \o Flatten(Tail(ss))

\* str.lower() on the letters the sampled filenames use
Lower(c) ==
    CASE c = "A" -> "a" [] c = "B" -> "b" [] c = "D" -> "d" [] c = "E" -> "e"
      [] c = "F" -> "f" [] c = "G" -> "g" [] c = "I" -> "i" [] c = "J" -> "j"
      [] c = "M" -> "m" [] c = "N" -> "n" [] c = "P" -> "p" [] c = "T" -> "t"
      [] OTHER -> c

LowerStr(s) == [i \in 1..Len(s) |-> Lower(s[i])]

\* str.endswith(suffix)
EndsWith(s, suf) ==
    /\ Len(s) >= Len(suf)
    /\ SubSeq(s, Len(s) - Len(suf) + 1, Len(s)) = suf

\* not s.strip(): the text holds nothing but whitespace
IsBlank(s) == \A i \in 1..Len(s) : s[i] \in {" ", "\n"}

\* ------------------------------------------------------------ inputs
Magic == <<"%", "P", "D", "F">>

\* a buffer of n bytes that starts like a PDF file, and one that does not
PdfPrefix(n) == [i \in 1..n |-> IF i <= 4 THEN Magic[i] ELSE "-"]
OtherPrefix(n) == [i \in 1..n |-> IF i = 1 THEN "P" ELSE "K"]

ByteInputs == {PdfPrefix(n) : n \in 0..MaxBytes} \cup {OtherPrefix(n) : n \in 1..MaxBytes}

Filenames ==
    { <<>>,
      <<"a", ".", "p", "d", "f">>,
      <<"A", ".", "P", "D", "F">>,
      <<"p", "d", "f">>,
      <<"a", ".", "p", "n", "g">>,
      <<"a", ".", "J", "P", "G">>,
      <<"a", ".", "t", "x", "t">> }

ImageExts ==
    { <<".", "j", "p", "g">>, <<".", "j", "p", "e", "g">>, <<".", "p", "n", "g">>,
      <<".", "g", "i", "f">>, <<".", "t", "i", "f", "f">>, <<".", "b", "m", "p">> }

\* the calls the whole pipeline is run on: one of each kind the input check tells apart
InputSamples ==
    { <<PdfPrefix(0), <<>>>>,
      <<PdfPrefix(0), <<"a", ".", "p", "n", "g">>>>,
      <<PdfPrefix(MaxBytes), <<"a", ".", "J", "P", "G">>>>,
      <<OtherPrefix(MaxBytes), <<"a", ".", "t", "x", "t">>>>,
      <<PdfPrefix(4), <<>>>>,
      <<PdfPrefix(MaxBytes), <<>>>>,
      <<OtherPrefix(1), <<"A", ".", "P", "D", "F">>>> }

\* what one page gives a text backend: nothing, whitespace only, or real text
PageTexts == {<<>>, <<" ">>, <<"a">>}


\* ------------------------------------------------------------ the words of a document
(* A line of text is a tuple of words, a word one string of the vocabulary  *)
(* below.  What the module's regular expressions see of a word is tabled:   *)
(* len, its length; digits, it is digits only; upper, it is [A-Z0-9] only;  *)
(* num, its value in hundredths when the whole word matches                 *)
(* \d+(?:,\d+)*(?:\.\d+)?; runs, the values of the matches of that pattern  *)
(* inside it; pct, the last match is followed by "%"; d0, its first         *)
(* character is a digit.  A unit of an item is a tuple of words, as its     *)
(* description is.                                                          *)
W(len, digits, upper, num, runs, pct, d0) ==
    [len |-> len, digits |-> digits, upper |-> upper, num |-> num, runs |-> runs,
     pct |-> pct, d0 |-> d0]

Number(len, digits, v) == W(len, digits, digits, Some(v), <<v>>, FALSE, TRUE)
Word(len, upper) == W(len, FALSE, upper, None, <<>>, FALSE, FALSE)

Vocab ==
    ("0" :> Number(1, TRUE, 0)) @@ ("1" :> Number(1, TRUE, 100)) @@
    ("2" :> Number(1, TRUE, 200)) @@ ("3" :> Number(1, TRUE, 300)) @@
    ("4" :> Number(1, TRUE, 400)) @@ ("12" :> Number(2, TRUE, 1200)) @@
    ("999" :> Number(3, TRUE, 99900)) @@ ("1000" :> Number(4, TRUE, 100000)) @@
    ("1500" :> Number(4, TRUE, 150000)) @@ ("75000" :> Number(5, TRUE, 7500000)) @@
    ("550213" :> Number(6, TRUE, 55021300)) @@
    ("4.5" :> Number(3, FALSE, 450)) @@ ("5.00" :> Number(4, FALSE, 500)) @@
    ("500.00" :> Number(6, FALSE, 50000)) @@ ("2000.00" :> Number(7, FALSE, 200000)) @@
    ("125000.00" :> Number(9, FALSE, 12500000)) @@
    ("500000.00" :> Number(9, FALSE, 50000000)) @@
    ("-5.00" :> W(5, FALSE, FALSE, None, <<500>>, FALSE, FALSE)) @@
    ("-" :> Word(1, FALSE)) @@
    ("18%" :> W(3, FALSE, FALSE, None, <<1800>>, TRUE, TRUE)) @@
    ("%" :> Word(1, FALSE)) @@
    ("2\"" :> W(2, FALSE, FALSE, None, <<200>>, FALSE, TRUE)) @@
    ("Valve" :> Word(5, FALSE)) @@ ("Service" :> Word(7, FALSE)) @@
    ("steel" :> Word(5, FALSE)) @@ ("x" :> Word(1, FALSE)) @@
    ("VALVE" :> Word(5, TRUE)) @@ ("Lorem" :> Word(250, FALSE)) @@
    ("NOS" :> Word(3, TRUE)) @@ ("PCS" :> Word(3, TRUE)) @@
    ("KIT" :> Word(3, TRUE)) @@ ("TL" :> Word(2, TRUE)) @@
    ("Sr" :> Word(2, FALSE)) @@ ("Item" :> Word(4, FALSE)) @@ ("Code" :> Word(4, FALSE)) @@
    ("Description" :> Word(11, FALSE)) @@ ("Type" :> Word(4, FALSE)) @@
    ("Qty" :> Word(3, FALSE)) @@ ("Rate" :> Word(4, FALSE)) @@ ("Value" :> Word(5, FALSE)) @@
    ("Net" :> Word(3, FALSE)) @@ ("Grand" :> Word(5, FALSE)) @@ ("Total" :> Word(5, FALSE)) @@
    ("Total:" :> Word(6, FALSE)) @@ ("Date" :> Word(4, FALSE)) @@ ("Page" :> Word(4, FALSE)) @@
    ("Proforma" :> Word(8, FALSE)) @@ ("Invoice" :> Word(7, FALSE)) @@
    ("a@b.c" :> Word(5, FALSE))

\* the unit keywords of line 656, of line 721 and of line 719, among the vocabulary
UnitKeywords == {"PCS", "NOS", "KIT", "TL"}
UnitLineKeywords == {"PCS", "NOS", "KIT"}
QtyLineKeywords == {"PCS", "NOS"}

\* len(' '.join(words))
RECURSIVE SumLen(_)
SumLen(words) == IF words = <<>> THEN 0 ELSE Vocab[Head(words)].len + SumLen(Tail(words))
JoinedLen(words) == IF words = <<>> THEN 0 ELSE SumLen(words) + Len(words) - 1

UnclippedLen(words) == JoinedLen(words)

\* len(s[:255])
ClipLen(words) == IF JoinedLen(words) > 255 THEN 255 ELSE JoinedLen(words)

\* some i with line[i], line[i+1] = a, b: the pattern a\s*b found in the joined line
HasPair(line, a, b) == \E i \in 1..(Len(line) - 1) : line[i] = a /\ line[i + 1] = b

\* re.match(r'^(\d{1,2})\s+', line), lines 611, 635 and 694
IsItemStart(line) ==
    /\ Len(line) >= 2
    /\ Vocab[line[1]].digits
    /\ Vocab[line[1]].len <= 2

\* a slip: Page \d+ left out of the pattern
IsTotalsLineNoPage(line) ==
    \/ HasPair(line, "Net", "Value")
    \/ HasPair(line, "Grand", "Total")
    \/ "Total:" \in Range(line)

\* line 602: Net Value | Gross Value | Grand Total | Total: | Page \d+ | Existing Customer
IsTotalsLine(line) ==
    \/ HasPair(line, "Net", "Value")
    \/ HasPair(line, "Grand", "Total")
    \/ "Total:" \in Range(line)
    \/ \E i \in 1..(Len(line) - 1) : line[i] = "Page" /\ Vocab[line[i + 1]].d0

\* line 698: the same, and Customer Information | Invoice Date | Date
IsSectionLine(line) == IsTotalsLine(line) \/ "Date" \in Range(line)

\* line 606: the line is one column title (Type, Unit, Price and Amount included)
IsTitleLine(line) ==
    /\ Len(line) = 1
    /\ line[1] \in {"Sr", "Item", "Code", "Description", "Type", "Qty", "Rate", "Value"}

\* line 702: the same test with S.N and # added, Type kept
IsHeaderLikeLine(line) == IsTitleLine(line)

\* lines 582-588: the number of keyword categories a line has a whole word of
KeywordCount(line) ==
    LET hit(ws) == IF Range(line) \cap ws # {} THEN 1 ELSE 0 IN
    hit({"Sr"}) + hit({"Item", "Code"}) + hit({"Description"}) + hit({"Qty"})
      + hit({"Rate", "Value"})

\* ------------------------------------------------------------ parse_item_multiline
\* lines 650-653: the word is a code, \d{6,15} or [A-Z0-9]{3,15}
IsCodeWord(w) ==
    \/ (Vocab[w].digits /\ Vocab[w].len >= 6 /\ Vocab[w].len <= 15)
    \/ (Vocab[w].upper /\ Vocab[w].len >= 3 /\ Vocab[w].len <= 15)

\* lines 659-674: the numbers of the line that are not percentages, as they appear
RECURSIVE PlainNumbers(_)
PlainNumbers(rest) ==
    IF rest = <<>> THEN <<>>
    ELSE LET w == Vocab[Head(rest)]
             percent == \/ w.pct
                        \/ (w.num # None /\ Len(rest) >= 2 /\ rest[2] = "%")
             kept == IF w.runs # <<>> /\ percent
                     THEN SubSeq(w.runs, 1, Len(w.runs) - 1)
                     ELSE w.runs
         IN  kept \o PlainNumbers(Tail(rest))

\* line 657: the place of the first unit keyword of the line, 0 when it has none
UnitAt(rest) ==
    LET at == {i \in 1..Len(rest) : rest[i] \in UnitKeywords} IN
    IF at = {} THEN 0 ELSE CHOOSE i \in at : \A j \in at : i <= j

\* lines 677-682: the description is what precedes the unit, or the line less one last number
LineDescription(rest) ==
    IF UnitAt(rest) # 0 THEN SubSeq(rest, 1, UnitAt(rest) - 1)
    ELSE IF Len(rest) >= 2 /\ Vocab[rest[Len(rest)]].num # None
         THEN SubSeq(rest, 1, Len(rest) - 1)
         ELSE rest

\* line 710: ^\d+\s+[\d\,\.]+
IsAmountLine(line) == Len(line) >= 2 /\ Vocab[line[1]].digits /\ Vocab[line[2]].d0

\* line 714: ^[\d\.\%]+$
IsFigureLine(line) ==
    /\ Len(line) = 1
    /\ (Vocab[line[1]].num # None \/ line[1] \in {"18%", "%"})

\* line 719: ^\d+\s+(?:PCS|NOS|UNT|KG|LTR|BOX|CASE)\b
IsQtyUnitLine(line) ==
    Len(line) >= 2 /\ Vocab[line[1]].digits /\ line[2] \in QtyLineKeywords

\* line 721: the first unit keyword of such a line
UnitOfLine(line) ==
    LET at == {i \in 1..Len(line) : line[i] \in UnitLineKeywords} IN
    IF at = {} THEN None ELSE Some(<<line[CHOOSE i \in at : \A j \in at : i <= j]>>)

\* lines 686-730: the look-ahead over the lines that continue the description
RECURSIVE Continuation(_, _, _, _)
Continuation(all_lines, next_idx, parts, unit) ==
    LET stop == [parts |-> parts, unit |-> unit, next_idx |-> next_idx] IN
    IF next_idx > Len(all_lines) THEN stop
    ELSE LET next_line == all_lines[next_idx] IN
         IF IsItemStart(next_line) THEN stop
         ELSE IF IsSectionLine(next_line) THEN stop
         ELSE IF IsHeaderLikeLine(next_line) THEN stop
         ELSE IF IsAmountLine(next_line) THEN stop
         ELSE IF IsFigureLine(next_line) THEN stop
         ELSE IF IsQtyUnitLine(next_line)
              THEN IF UnitOfLine(next_line) # None /\ unit = None
                   THEN [stop EXCEPT !.unit = UnitOfLine(next_line)]
                   ELSE stop
              ELSE Continuation(all_lines, next_idx + 1, Append(parts, next_line), unit)

SeqMax(N) == CHOOSE m \in Range(N) : \A n \in Range(N) : n <= m
First(S) == CHOOSE i \in S : \A j \in S : i <= j

IsSmallOrZero(n) == 0 <= n /\ n < 1000 * 100

\* no search for a quantity: the last number is the value, the one before it the rate
AssignLastAsValue(numbers) ==
    [qty |-> 1,
     rate |-> IF Len(numbers) >= 2 THEN Some(numbers[Len(numbers) - 1]) ELSE None,
     value |-> IF Len(numbers) >= 1 THEN Some(numbers[Len(numbers)]) ELSE None]

\* num == int(num), and 0 < num < 1000, on hundredths
IsWhole(n) == n % 100 = 0
IsSmall(n) == 0 < n /\ n < 1000 * 100

\* lines 749-793: which of the numbers are quantity, rate and value
AssignNumbers(numbers) ==
    LET unset == [qty |-> 1, rate |-> None, value |-> None] IN
    IF Len(numbers) = 1 THEN [unset EXCEPT !.value = Some(numbers[1])]
    ELSE IF Len(numbers) = 2
    THEN IF IsWhole(numbers[1]) /\ IsSmall(numbers[1]) /\ numbers[2] > numbers[1]
         THEN [unset EXCEPT !.qty = numbers[1] \div 100, !.value = Some(numbers[2])]
         ELSE [unset EXCEPT !.value = Some(SeqMax(numbers))]
    ELSE IF Len(numbers) >= 3
    THEN LET max_num == SeqMax(numbers)
             qtys == {i \in 1..Len(numbers) :
                        IsWhole(numbers[i]) /\ IsSmall(numbers[i]) /\ numbers[i] < max_num}
         IN  IF qtys # {}
             THEN LET qty_candidate == numbers[First(qtys)] \div 100
                      rates == {i \in 1..Len(numbers) :
                                  /\ numbers[i] # qty_candidate * 100
                                  /\ numbers[i] # max_num
                                  /\ numbers[i] > 0}
                  IN  [qty |-> qty_candidate,
                       value |-> Some(max_num),
                       rate |-> IF rates # {} THEN Some(numbers[First(rates)])
                                ELSE IF qty_candidate > 0 /\ max_num > 0
                                     THEN Some(max_num \div qty_candidate)
                                     ELSE None]
             ELSE [qty |-> 1,
                   value |-> Some(numbers[Len(numbers)]),
                   rate |-> Some(numbers[Len(numbers) - 1])]
    ELSE unset

\* a slip: the return of line 630 taken on every call
parse_item_nothing(all_lines, start_idx) == [item |-> None, lines_consumed |-> 0]

\* lines 623-795: the item that starts at line start_idx, and the lines it took
parse_item_multiline(all_lines, start_idx) ==
    IF start_idx > Len(all_lines) THEN [item |-> None, lines_consumed |-> 0]
    ELSE IF ~IsItemStart(all_lines[start_idx]) THEN [item |-> None, lines_consumed |-> 1]
    ELSE
    LET rest0 == Tail(all_lines[start_idx])
        coded == Len(rest0) >= 2 /\ IsCodeWord(rest0[1])
        item_code == IF coded THEN Some(rest0[1]) ELSE None
        rest_of_line == IF coded THEN Tail(rest0) ELSE rest0
        unit0 == IF UnitAt(rest_of_line) # 0 THEN Some(<<rest_of_line[UnitAt(rest_of_line)]>>)
                 ELSE None
        numbers == PlainNumbers(rest_of_line)
        scan == Continuation(all_lines, start_idx + 1, <<LineDescription(rest_of_line)>>, unit0)
        words == Flatten(scan.parts)
        lines_consumed == scan.next_idx - start_idx
        roles == AssignNumbers(numbers)
    IN  IF JoinedLen(words) < 2 THEN [item |-> None, lines_consumed |-> lines_consumed]
        ELSE [item |-> Some([description |-> [words |-> words,
                                              chars |-> ClipLen(words)],
                             code |-> item_code,
                             unit |-> scan.unit,
                             qty |-> roles.qty,
                             rate |-> roles.rate,
                             value |-> roles.value]),
              lines_consumed |-> lines_consumed]

\* ------------------------------------------------------------ extract_line_items_from_text
\* lines 580-594: the index of the first line with three keyword categories, 0 for none
ItemSectionStart(cleaned_lines) ==
    LET at == {i \in 1..Len(cleaned_lines) : KeywordCount(cleaned_lines[i]) >= 3} IN
    IF at = {} THEN 0 ELSE First(at)

\* lines 598-619: the loop from cursor i on
RECURSIVE ItemLoop(_, _, _)
ItemLoop(cleaned_lines, i, items) ==
    IF i > Len(cleaned_lines) THEN items
    ELSE LET line == cleaned_lines[i] IN
         IF IsTotalsLine(line) THEN items
         ELSE IF IsTitleLine(line) THEN ItemLoop(cleaned_lines, i + 1, items)
         ELSE IF IsItemStart(line)
              THEN LET r == parse_item_multiline(cleaned_lines, i) IN
                   ItemLoop(cleaned_lines, i + r.lines_consumed,
                            IF r.item # None THEN Append(items, r.item[1]) ELSE items)
              ELSE ItemLoop(cleaned_lines, i + 1, items)

\* lines 571-621
extract_line_items_from_text(cleaned_lines) ==
    IF ItemSectionStart(cleaned_lines) = 0 THEN <<>>
    ELSE ItemLoop(cleaned_lines, ItemSectionStart(cleaned_lines) + 1, <<>>)

\* ------------------------------------------------------------ _extract_items_with_coordinates
(* A word of page.get_text("words") is [x0, y0, text, block_no, line_no];   *)
(* x1, y1 and word_no are not read.  Coordinates are integers.              *)

\* list.sort(key=...): stable, on elements [k |-> key, v |-> value]
RECURSIVE InsertByKey(_, _)
InsertByKey(sorted, e) ==
    IF sorted = <<>> THEN <<e>>
    ELSE IF Head(sorted).k <= e.k THEN <<Head(sorted)>> \o InsertByKey(Tail(sorted), e)
    ELSE <<e>> \o sorted

RECURSIVE SortByKey(_)
SortByKey(s) ==
    IF s = <<>> THEN <<>>
    ELSE InsertByKey(SortByKey(SubSeq(s, 1, Len(s) - 1)), s[Len(s)])

Values(s) == [i \in 1..Len(s) |-> s[i].v]

\* lines 126-129: the keys of lines_map, in the order a dict keeps them
RECURSIVE LineKeys(_, _)
LineKeys(words, seen) ==
    IF words = <<>> THEN seen
    ELSE LET key == <<Head(words).block_no, Head(words).line_no>> IN
         LineKeys(Tail(words), IF key \in Range(seen) THEN seen ELSE Append(seen, key))

\* lines 132-135: the words of one key, sorted left to right
LineWords(words, key) ==
    LET mine == SelectSeq(words, LAMBDA w : <<w.block_no, w.line_no>> = key) IN
    Values(SortByKey([i \in 1..Len(mine) |-> [k |-> mine[i].x0, v |-> mine[i]]]))

\* a slip of line 138: the line's last word taken
LineSortKeyLastWord(line_words) == line_words[Len(line_words)].y0

\* line 138: the vertical position a line is sorted by, kv[1][0][1]
LineSortKey(line_words) == line_words[1].y0

\* lines 126-138: ordered_lines, each [key, enc, lw]: enc is the key's place in lines_map
OrderedLines(words) ==
    LET keys == LineKeys(words, <<>>) IN
    Values(SortByKey([i \in 1..Len(keys) |->
        LET lw == LineWords(words, keys[i]) IN
        [k |-> LineSortKey(lw), v |-> [key |-> keys[i], enc |-> i, lw |-> lw]]]))

Texts(lw) == [i \in 1..Len(lw) |-> lw[i].text]

\* lines 144-149: the number of the six header patterns found in the joined line
HeaderHits(joined) ==
    LET hit(ws) == IF Range(joined) \cap ws # {} THEN 1 ELSE 0 IN
    hit({"Sr"}) + hit({"Code"}) + hit({"Description"}) + hit({"Qty"}) + hit({"Rate"})
      + hit({"Value"})

\* lines 141-155: the index of the header line, 0 for none
HeaderIdx(ordered_lines) ==
    LET at == {i \in 1..Len(ordered_lines) : HeaderHits(Texts(ordered_lines[i].lw)) >= 3} IN
    IF at = {} THEN 0 ELSE First(at)

\* lines 166-174: the header words that name a column
ColDefs ==
    << [name |-> "sr", pats |-> {"Sr"}],
       [name |-> "code", pats |-> {"Code"}],
       [name |-> "description", pats |-> {"Description"}],
       [name |-> "type", pats |-> {"Type"}],
       [name |-> "qty", pats |-> {"Qty"}],
       [name |-> "rate", pats |-> {"Rate"}],
       [name |-> "value", pats |-> {"Value", "Total"}] >>

\* lines 159-164: the x0 of the first header word matching a pattern, None for none
find_word_x(header_words, pats) ==
    LET at == {i \in 1..Len(header_words) : header_words[i].text \in pats} IN
    IF at = {} THEN None ELSE Some(header_words[First(at)].x0)

\* lines 176-184: the columns found, sorted by x
Columns(header_words) ==
    LET found == SelectSeq(ColDefs, LAMBDA c : find_word_x(header_words, c.pats) # None) IN
    Values(SortByKey([i \in 1..Len(found) |->
        [k |-> find_word_x(header_words, found[i].pats)[1],
         v |-> [name |-> found[i].name, x |-> find_word_x(header_words, found[i].pats)[1]]]]))

\* lines 187-198: the range of column idx, its bounds doubled so that midpoints are integers
ColumnRange(columns, idx) ==
    LET x == columns[idx].x
        n == Len(columns) IN
    IF idx = 1
    THEN [name |-> columns[idx].name,
          left2 |-> 2 * (x - 2),
          right2 |-> IF idx + 1 <= n THEN columns[idx + 1].x + x ELSE 2 * (x + 2000)]
    ELSE IF idx = n
    THEN [name |-> columns[idx].name,
          left2 |-> columns[idx - 1].x + x,
          right2 |-> 2 * (x + 2000)]
    ELSE [name |-> columns[idx].name,
          left2 |-> columns[idx - 1].x + x,
          right2 |-> columns[idx + 1].x + x]

Ranges(columns) == [idx \in 1..Len(columns) |-> ColumnRange(columns, idx)]

\* lines 213-217: the column a word falls in, the first range holding its x0; 0 for none
ColumnOf(ranges, w) ==
    LET at == {i \in 1..Len(ranges) : 2 * w.x0 >= ranges[i].left2 /\ 2 * w.x0 < ranges[i].right2}
    IN  IF at = {} THEN 0 ELSE First(at)

\* lines 212-217 and cells.get(name) or []: the texts of the row's words in column name
Cell(ranges, lw, name) ==
    Texts(SelectSeq(lw, LAMBDA w : ColumnOf(ranges, w) # 0
                                   /\ ranges[ColumnOf(ranges, w)].name = name))

\* line 208: Net Value | Gross Value | Grand Total | Total:
IsSummaryRow(joined) ==
    \/ HasPair(joined, "Net", "Value")
    \/ HasPair(joined, "Grand", "Total")
    \/ "Total:" \in Range(joined)

\* what re.sub(r'[^\d\.-]', '', word) leaves of a word, character by character
Clean(w) ==
    CASE w = "0" -> <<"0">> [] w = "1" -> <<"1">> [] w = "2" -> <<"2">>
      [] w = "3" -> <<"3">> [] w = "4" -> <<"4">> [] w = "12" -> <<"1", "2">>
      [] w = "999" -> <<"9", "9", "9">> [] w = "1000" -> <<"1", "0", "0", "0">>
      [] w = "1500" -> <<"1", "5", "0", "0">> [] w = "75000" -> <<"7", "5", "0", "0", "0">>
      [] w = "550213" -> <<"5", "5", "0", "2", "1", "3">>
      [] w = "4.5" -> <<"4", ".", "5">> [] w = "5.00" -> <<"5", ".", "0", "0">>
      [] w = "500.00" -> <<"5", "0", "0", ".", "0", "0">>
      [] w = "2000.00" -> <<"2", "0", "0", "0", ".", "0", "0">>
      [] w = "125000.00" -> <<"1", "2", "5", "0", "0", "0", ".", "0", "0">>
      [] w = "500000.00" -> <<"5", "0", "0", "0", "0", "0", ".", "0", "0">>
      [] w = "-5.00" -> <<"-", "5", ".", "0", "0">> [] w = "-" -> <<"-">>
      [] w = "18%" -> <<"1", "8">> [] w = "2\"" -> <<"2">>
      [] OTHER -> <<>>

DigitChars == {"0", "1", "2", "3", "4", "5", "6", "7", "8", "9"}

DigitVal(c) ==
    CASE c = "0" -> 0 [] c = "1" -> 1 [] c = "2" -> 2 [] c = "3" -> 3 [] c = "4" -> 4
      [] c = "5" -> 5 [] c = "6" -> 6 [] c = "7" -> 7 [] c = "8" -> 8 [] c = "9" -> 9

\* int(digits)
RECURSIVE DigitsVal(_)
DigitsVal(ds) ==
    IF ds = <<>> THEN 0 ELSE 10 * DigitsVal(SubSeq(ds, 1, Len(ds) - 1)) + DigitVal(ds[Len(ds)])

\* the first n digits at the head of chars
RECURSIVE LeadingDigits(_, _)
LeadingDigits(chars, n) ==
    IF chars = <<>> \/ n = 0 \/ Head(chars) \notin DigitChars THEN <<>>
    ELSE <<Head(chars)>> \o LeadingDigits(Tail(chars), n - 1)

\* re.search(r'(\d{1,4})', ...) in one word: its first digits, four at most
RECURSIVE FirstDigits(_)
FirstDigits(chars) ==
    IF chars = <<>> THEN <<>>
    ELSE IF Head(chars) \in DigitChars THEN LeadingDigits(chars, 4)
    ELSE FirstDigits(Tail(chars))

\* lines 230-238: qty_val, None when the cell has no digit
QtyOfCell(cell) ==
    LET at == {i \in 1..Len(cell) : FirstDigits(Clean(cell[i])) # <<>>} IN
    IF at = {} THEN None ELSE Some(DigitsVal(FirstDigits(Clean(cell[First(at)]))))

\* re.search(r'(\d{3,15})', word): the first run of three digits or more in a word
CodeRun(w) ==
    CASE w \in {"999", "1000", "1500", "75000", "550213"} -> Some(w)
      [] w = "500.00" -> Some("500") [] w = "2000.00" -> Some("2000")
      [] w = "125000.00" -> Some("125000") [] w = "500000.00" -> Some("500000")
      [] OTHER -> None

\* lines 225-227: item_code
CodeOfCell(cell) ==
    LET at == {i \in 1..Len(cell) : CodeRun(cell[i]) # None} IN
    IF at = {} THEN None ELSE CodeRun(cell[First(at)])

\* Decimal(chars) in hundredths; None where Decimal raises
Decimal(chars) ==
    LET neg == chars # <<>> /\ chars[1] = "-"
        body == IF neg THEN Tail(chars) ELSE chars
        dots == {i \in 1..Len(body) : body[i] = "."}
        valid == /\ \A i \in 1..Len(body) : body[i] \in DigitChars \cup {"."}
                 /\ \E i \in 1..Len(body) : body[i] \in DigitChars
                 /\ Cardinality(dots) <= 1
        dot == IF dots = {} THEN Len(body) + 1 ELSE First(dots)
        whole == DigitsVal(SubSeq(body, 1, dot - 1))
        frac == LeadingDigits(SubSeq(body, dot + 1, Len(body)) \o <<"0", "0">>, 2)
        hundredths == 100 * whole + DigitsVal(frac)
    IN  IF valid THEN Some(IF neg THEN 0 - hundredths ELSE hundredths) ELSE None

\* lines 241-251: to_dec of the joined cell, None for an empty cell
to_dec(cell) ==
    IF cell = <<>> THEN None
    ELSE Decimal(Flatten([i \in 1..Len(cell) |-> Clean(cell[i])]))

\* str.upper() of a word of the vocabulary
Upper(w) ==
    CASE w = "Valve" -> "VALVE" [] w = "Service" -> "SERVICE" [] w = "steel" -> "STEEL"
      [] w = "x" -> "X" [] w = "Lorem" -> "LOREM" [] w = "Sr" -> "SR" [] w = "Item" -> "ITEM"
      [] w = "Code" -> "CODE" [] w = "Description" -> "DESCRIPTION" [] w = "Type" -> "TYPE"
      [] w = "Qty" -> "QTY" [] w = "Rate" -> "RATE" [] w = "Value" -> "VALUE"
      [] w = "Net" -> "NET" [] w = "Grand" -> "GRAND" [] w = "Total" -> "TOTAL"
      [] w = "Total:" -> "TOTAL:" [] w = "Date" -> "DATE" [] w = "Page" -> "PAGE"
      [] OTHER -> w

\* the unit keywords of line 257, among the vocabulary
TableUnits == {"NOS", "PCS"}

\* lines 254-258: unit_val
UnitOfCell(cell) ==
    LET at == {i \in 1..Len(cell) : cell[i] \in TableUnits} IN
    IF cell = <<>> THEN None
    ELSE IF at # {} THEN Some(<<cell[First(at)]>>)
    ELSE Some([i \in 1..Len(cell) |-> Upper(cell[i])])

\* a slip of line 267: only a missing quantity becomes 1
QtyOrOneIfMissing(qty_val) == IF qty_val = None THEN 1 ELSE qty_val[1]

\* line 267: qty_val or 1
QtyOrOne(qty_val) == IF qty_val = None \/ qty_val = Some(0) THEN 1 ELSE qty_val[1]

\* lines 211-272: the item of one body row, None for a row that is skipped
RowItem(ranges, lw) ==
    LET desc == Cell(ranges, lw, "description")
        qty_val == QtyOfCell(Cell(ranges, lw, "qty"))
    IN  IF desc = <<>> THEN None
        ELSE Some([description |-> [words |-> desc, chars |-> ClipLen(desc)],
                   qty |-> QtyOrOne(qty_val),
                   unit |-> UnitOfCell(Cell(ranges, lw, "type")),
                   value |-> to_dec(Cell(ranges, lw, "value")),
                   rate |-> to_dec(Cell(ranges, lw, "rate")),
                   code |-> CodeOfCell(Cell(ranges, lw, "code"))])

\* lines 202-272: the items of the rows from index i on, up to the first summary row,
\* each with the row it came from
RECURSIVE BodyItems(_, _, _)
BodyItems(ordered_lines, ranges, i) ==
    IF i > Len(ordered_lines) THEN <<>>
    ELSE LET lw == ordered_lines[i].lw IN
         IF IsSummaryRow(Texts(lw)) THEN <<>>
         ELSE LET it == RowItem(ranges, lw)
                  more == BodyItems(ordered_lines, ranges, i + 1) IN
              IF it = None THEN more
              ELSE <<[item |-> it[1], row |-> ordered_lines[i]]>> \o more

\* lines 121-272: what one page adds to items
PageItems(words) ==
    IF words = <<>> THEN <<>>
    ELSE LET ordered_lines == OrderedLines(words)
             header_idx == HeaderIdx(ordered_lines) IN
         IF header_idx = 0 THEN <<>>
         ELSE LET columns == Columns(ordered_lines[header_idx].lw) IN
              IF columns = <<>> THEN <<>>
              ELSE BodyItems(ordered_lines, Ranges(columns), header_idx + 1)

\* ------------------------------------------------------------ state
VARIABLES
    file_bytes,     \* extract_from_bytes: the uploaded bytes
    filename,       \* extract_from_bytes: the filename hint
    fitzAvail,      \* module level: fitz is not None
    pdf2Avail,      \* module level: PyPDF2 is not None
    nPages,         \* the number of pages of the document or reader being iterated
    pc,             \* the statement the call is at
    text,           \* extract_text_from_pdf: text; extract_from_bytes: text
    fitz_error,     \* extract_text_from_pdf: fitz_error
    pdf2_error,     \* extract_text_from_pdf: pdf2_error
    page,           \* index of the page a "for page in ..." loop is at
    openDocs,       \* fitz documents opened and not closed
    exc,            \* the exception in flight (its message), if any
    attempts,       \* history: the backends extract_text_from_pdf has tried
    produced,       \* history: what the backend being read has produced
    backendUsed,    \* history: a call into a PDF library has been made
    result,         \* the record extract_from_bytes returned
    doc,            \* what the PDF libraries read out of file_bytes: lines, header fields, pages
    parsed,         \* extract_from_bytes: the dict parse_invoice_data returned
    coord_items,    \* _extract_items_with_coordinates: items
    coord_rows,     \* history: the row each element of coord_items came from, and its page
    cursor,         \* extract_line_items_from_text: i, counted from 1
    line_items,     \* extract_line_items_from_text: items
    steps           \* history: what each iteration of the loop of lines 598-619 did

vars == <<file_bytes, filename, fitzAvail, pdf2Avail, nPages, pc, text, fitz_error,
          pdf2_error, page, openDocs, exc, attempts, produced, backendUsed, result,
          doc, parsed, coord_items, coord_rows, cursor, line_items, steps>>

inputs == <<file_bytes, filename, fitzAvail, pdf2Avail, doc>>
efbLocals == <<parsed, coord_items, coord_rows>>
etpLocals == <<text, fitz_error, pdf2_error, page, nPages>>
history == <<attempts, produced, backendUsed>>
eltLocals == <<cursor, line_items, steps>>

\* ------------------------------------------------------------ extract_from_bytes: input checks
Prefix(s, n) == SubSeq(s, 1, IF Len(s) < n THEN Len(s) ELSE n)

IsPdf(fb, fn) ==
    \/ EndsWith(LowerStr(fn), <<".", "p", "d", "f">>)
    \/ (Len(fb) > 4 /\ Prefix(fb, 4) = Magic)

IsImage(fn) == \E e \in ImageExts : EndsWith(LowerStr(fn), e)

\* a slip of lines 807-842: the image check made first
RejectImageFirst(fb, fn) ==
    IF IsImage(fn) THEN Some("image_file_not_supported")
    ELSE IF fb = <<>> THEN Some("empty_file")
    ELSE IF ~IsPdf(fb, fn) THEN Some("unsupported_file_type")
    ELSE None

\* the error code of an input that is rejected, None for one taken down the PDF path
Reject(fb, fn) ==
    IF fb = <<>> THEN Some("empty_file")
    ELSE IF IsImage(fn) THEN Some("image_file_not_supported")
    ELSE IF ~IsPdf(fb, fn) THEN Some("unsupported_file_type")
    ELSE None

Failure(code, msg, raw) ==
    [success |-> FALSE, error |-> Some(code), message |-> msg, ocr_available |-> FALSE,
     header |-> None, items |-> <<>>, raw_text |-> raw]

NoResult ==
    [success |-> FALSE, error |-> None, message |-> <<>>, ocr_available |-> FALSE,
     header |-> None, items |-> <<>>, raw_text |-> <<>>]

RejectMessage(code) ==
    CASE code = "empty_file" -> <<"File is empty. Please upload a valid PDF file.">>
      [] code = "image_file_not_supported" ->
            <<"Image files are not supported. Please convert to PDF or enter details manually.">>
      [] OTHER -> <<"Please upload a PDF file.">>

\* a slip: the call of line 846 left outside a try block
HandlerTextUnguarded(at) ==
    CASE at \in {"etp_fitz_open", "etp_fitz_page", "etp_fitz_close"} -> "etp_fitz_except"
      [] at \in {"etp_pdf2_open", "etp_pdf2_page", "etp_pdf2_check"} -> "etp_pdf2_except"
      [] at \in {"eic_open", "eic_page", "eic_close"} -> "eic_except"
      [] at \in {"efb_parse", "efb_format"} -> "efb_parse_except"
      [] OTHER -> "escaped"

\* a slip: _extract_items_with_coordinates without its own try block
HandlerCoordUnguarded(at) ==
    CASE at \in {"etp_fitz_open", "etp_fitz_page", "etp_fitz_close"} -> "etp_fitz_except"
      [] at \in {"etp_pdf2_open", "etp_pdf2_page", "etp_pdf2_check"} -> "etp_pdf2_except"
      [] at = "etp_raise" -> "efb_text_except"
      [] at \in {"efb_parse", "efb_format", "eic_open", "eic_page", "eic_close"}
            -> "efb_parse_except"
      [] OTHER -> "escaped"

\* the handler an exception raised at a statement reaches: the try blocks of the module
Handler(at) ==
    CASE at \in {"etp_fitz_open", "etp_fitz_page", "etp_fitz_close"} -> "etp_fitz_except"
      [] at \in {"etp_pdf2_open", "etp_pdf2_page", "etp_pdf2_check"} -> "etp_pdf2_except"
      [] at = "etp_raise" -> "efb_text_except"
      [] at \in {"eic_open", "eic_page", "eic_close"} -> "eic_except"
      [] at \in {"efb_parse", "efb_format"} -> "efb_parse_except"
      [] OTHER -> "escaped"

CheckInput ==
    /\ pc = "efb_check"
    /\ LET r == Reject(file_bytes, filename) IN
         IF r # None
         THEN /\ result' = Failure(r[1], RejectMessage(r[1]), <<>>)
              /\ pc' = "done"
         ELSE /\ pc' = "etp_fitz_open"
              /\ UNCHANGED result
    /\ UNCHANGED <<inputs, eltLocals, efbLocals, etpLocals, openDocs, exc, history>>


\* ------------------------------------------------------------ extract_text_from_pdf
\* text += page_text + "\n", done only for a page_text that is not empty
AddPageText(t, page_text) == IF page_text # <<>> THEN t \o page_text \o <<"\n">> ELSE t

\* lines 44-46: "if fitz is not None", then fitz.open
FitzOpen ==
    /\ pc = "etp_fitz_open"
    /\ IF ~fitzAvail
       THEN /\ pc' = "etp_pdf2_open"
            /\ UNCHANGED <<page, nPages, openDocs, history>>
       ELSE /\ attempts' = Append(attempts, "fitz")
            /\ produced' = <<>>
            /\ backendUsed' = TRUE
            /\ \/ /\ openDocs' = openDocs \cup {"etp"}
                  /\ nPages' = Len(doc.pages)
                  /\ page' = 1
                  /\ pc' = "etp_fitz_page"
               \/ /\ pc' = Handler("etp_fitz_open")
                  /\ UNCHANGED <<page, nPages, openDocs>>
    /\ UNCHANGED <<inputs, eltLocals, efbLocals, text, fitz_error, pdf2_error, exc, result>>

\* lines 47-51: one turn of "for page in doc"
FitzPage ==
    /\ pc = "etp_fitz_page"
    /\ IF page > nPages
       THEN /\ pc' = "etp_fitz_close"
            /\ UNCHANGED <<text, page, history>>
       ELSE /\ backendUsed' = TRUE
            /\ UNCHANGED attempts
            /\ \/ \E page_text \in PageTexts :
                    /\ text' = AddPageText(text, page_text)
                    /\ produced' = AddPageText(produced, page_text)
                    /\ page' = page + 1
                    /\ pc' = "etp_fitz_page"
               \/ /\ pc' = Handler("etp_fitz_page")
                  /\ UNCHANGED <<text, page, produced>>
    /\ UNCHANGED <<inputs, eltLocals, efbLocals, fitz_error, pdf2_error, nPages, openDocs, exc, result>>

\* lines 52-59: doc.close(), then return the text or note that it is empty
FitzClose ==
    /\ pc = "etp_fitz_close"
    /\ openDocs' = openDocs \ {"etp"}
    /\ IF ~IsBlank(text)
       THEN /\ pc' = "efb_validate"
            /\ UNCHANGED fitz_error
       ELSE /\ fitz_error' = Some("No text found in PDF (PyMuPDF)")
            /\ pc' = "etp_pdf2_open"
    /\ UNCHANGED <<inputs, eltLocals, efbLocals, text, pdf2_error, page, nPages, exc, history, result>>

\* lines 60-63: except Exception
FitzExcept ==
    /\ pc = "etp_fitz_except"
    /\ fitz_error' = Some("str(e)")
    /\ text' = <<>>
    /\ pc' = "etp_pdf2_open"
    /\ UNCHANGED <<inputs, eltLocals, efbLocals, pdf2_error, page, nPages, openDocs, exc, history, result>>

\* lines 66-70: "if PyPDF2 is not None and not text.strip()", then PdfReader
Pdf2Open ==
    /\ pc = "etp_pdf2_open"
    /\ IF ~(pdf2Avail /\ IsBlank(text))
       THEN /\ pc' = "etp_raise"
            /\ UNCHANGED <<pdf2_error, page, nPages, history>>
       ELSE /\ attempts' = Append(attempts, "pypdf2")
            /\ produced' = <<>>
            /\ backendUsed' = TRUE
            /\ \/ LET n == Len(doc.pages) IN
                    /\ nPages' = n
                    /\ IF n = 0
                       THEN /\ pdf2_error' = Some("PDF has no pages")
                            /\ pc' = "etp_raise"
                            /\ UNCHANGED page
                       ELSE /\ page' = 1
                            /\ pc' = "etp_pdf2_page"
                            /\ UNCHANGED pdf2_error
               \/ /\ pc' = Handler("etp_pdf2_open")
                  /\ UNCHANGED <<pdf2_error, page, nPages>>
    /\ UNCHANGED <<inputs, eltLocals, efbLocals, text, fitz_error, openDocs, exc, result>>

\* lines 72-75: one turn of "for page in pdf_reader.pages"
Pdf2Page ==
    /\ pc = "etp_pdf2_page"
    /\ IF page > nPages
       THEN /\ pc' = "etp_pdf2_check"
            /\ UNCHANGED <<text, page, history>>
       ELSE /\ backendUsed' = TRUE
            /\ UNCHANGED attempts
            /\ \/ \E page_text \in PageTexts :
                    /\ text' = AddPageText(text, page_text)
                    /\ produced' = AddPageText(produced, page_text)
                    /\ page' = page + 1
                    /\ pc' = "etp_pdf2_page"
               \/ /\ pc' = Handler("etp_pdf2_page")
                  /\ UNCHANGED <<text, page, produced>>
    /\ UNCHANGED <<inputs, eltLocals, efbLocals, fitz_error, pdf2_error, nPages, openDocs, exc, result>>

\* lines 77-82: return the text or note that it is empty
Pdf2Check ==
    /\ pc = "etp_pdf2_check"
    /\ IF ~IsBlank(text)
       THEN /\ pc' = "efb_validate"
            /\ UNCHANGED pdf2_error
       ELSE /\ pdf2_error' = Some("No text found in PDF (PyPDF2)")
            /\ pc' = "etp_raise"
    /\ UNCHANGED <<inputs, eltLocals, efbLocals, text, fitz_error, page, nPages, openDocs, exc, history, result>>

\* lines 83-85: except Exception
Pdf2Except ==
    /\ pc = "etp_pdf2_except"
    /\ pdf2_error' = Some("str(e)")
    /\ pc' = "etp_raise"
    /\ UNCHANGED <<inputs, eltLocals, efbLocals, text, fitz_error, page, nPages, openDocs, exc, history, result>>

\* lines 88-95: the message of the RuntimeError
ErrorMsg(fAvail, pAvail, fe, pe) ==
    IF ~fAvail /\ ~pAvail THEN <<"No PDF extraction library available">>
    ELSE IF fe # None /\ pe # None THEN <<"PDF extraction failed", fe[1], pe[1]>>
    ELSE IF fe # None THEN <<fe[1]>>
    ELSE IF pe # None THEN <<pe[1]>>
    ELSE <<"Unknown PDF extraction error">>

\* lines 87-97: raise RuntimeError(error_msg); the function's locals end with it
TextRaise ==
    /\ pc = "etp_raise"
    /\ exc' = Some(ErrorMsg(fitzAvail, pdf2Avail, fitz_error, pdf2_error))
    /\ pc' = Handler("etp_raise")
    /\ text' = <<>>
    /\ fitz_error' = None
    /\ pdf2_error' = None
    /\ page' = 0
    /\ nPages' = 0
    /\ UNCHANGED <<inputs, eltLocals, efbLocals, openDocs, history, result>>

\* ------------------------------------------------------------ extract_from_bytes: after the text
\* lines 847-857: except Exception around extract_text_from_pdf
TextExcept ==
    /\ pc = "efb_text_except"
    /\ result' = Failure("pdf_extraction_failed",
                         <<"Could not extract text from PDF">> \o exc[1], <<>>)
    /\ exc' = None
    /\ pc' = "done"
    /\ UNCHANGED <<inputs, eltLocals, efbLocals, etpLocals, openDocs, history>>

\* lines 860-869: "if not text or not text.strip()"
Validate ==
    /\ pc = "efb_validate"
    /\ IF IsBlank(text)
       THEN /\ result' = Failure("no_text_extracted", <<"No readable text found in PDF.">>, <<>>)
            /\ pc' = "done"
       ELSE /\ pc' = "efb_parse"
            /\ UNCHANGED result
    /\ fitz_error' = None
    /\ pdf2_error' = None
    /\ page' = 0
    /\ nPages' = 0
    /\ attempts' = <<>>
    /\ produced' = <<>>
    /\ UNCHANGED <<inputs, eltLocals, efbLocals, text, openDocs, exc, backendUsed>>

\* ------------------------------------------------------------ parse_invoice_data
\* line 317: Proforma\s+Invoice | PI\s*No | Code\s*No
IsAnchorLine(line) == HasPair(line, "Proforma", "Invoice") \/ HasPair(line, "Code", "NOS")

\* lines 315-323: the place of the first anchor line, counted from 1; 1 when there is none
proforma_idx(lines) ==
    LET at == {i \in 1..Len(lines) : IsAnchorLine(lines[i])} IN
    IF at = {} THEN 1 ELSE First(at)

\* line 337: lines[:proforma_idx] if proforma_idx > 0 else lines[:8]
TopBlock(lines) ==
    IF proforma_idx(lines) > 1 THEN SubSeq(lines, 1, proforma_idx(lines) - 1)
    ELSE SubSeq(lines, 1, IF Len(lines) < 8 THEN Len(lines) ELSE 8)

\* lines 350-352: the first e-mail address of the block
EmailOf(block) ==
    LET ws == Flatten(block)
        at == {i \in 1..Len(ws) : ws[i] = "a@b.c"} IN
    IF at = {} THEN None ELSE Some(ws[First(at)])

\* lines 339-352: seller_name, seller_address, seller_email; no word of the vocabulary
\* is a telephone number, so seller_phone stays None
Seller(lines) ==
    LET seller_lines == TopBlock(lines) IN
    [seller_name |-> IF seller_lines # <<>> THEN Some(seller_lines[1]) ELSE None,
     seller_address |-> IF Len(seller_lines) > 1 THEN Some(Flatten(Tail(seller_lines)))
                        ELSE None,
     seller_email |-> EmailOf(seller_lines)]

\* line 326: extraction_lines, the lines from the anchor line on
ExtractionLines(lines) == SubSeq(lines, proforma_idx(lines), Len(lines))

\* lines 513-519, for the label Grand Total: the amount text found in a line, None for none
AmountIn(line) ==
    LET at == {i \in 1..(Len(line) - 2) : /\ line[i] = "Grand"
                                          /\ line[i + 1] \in {"Total", "Total:"}
                                          /\ Vocab[line[i + 2]].d0} IN
    IF at = {} THEN None ELSE Some(line[First(at) + 2])

\* lines 513-532: total, to_decimal(find_amount([Gross Value, Grand Total, Total Amount]))
find_amount(extraction_lines) ==
    LET at == {i \in 1..Len(extraction_lines) : AmountIn(extraction_lines[i]) # None} IN
    IF at = {} THEN None ELSE AmountIn(extraction_lines[First(at)])

to_decimal(s) == IF s = None THEN None ELSE Decimal(Clean(s[1]))

(* lines 281-569.  The label lines of invoice_no and customer_name are not in   *)
(* the vocabulary; the document says what they yield: None or a string that     *)
(* is not empty (lines 398-423 leave no other value).                           *)
parse_invoice_data(d) ==
    LET extraction_lines == ExtractionLines(d.lines) IN
    [invoice_no |-> d.invoice_no,
     customer_name |-> d.customer_name,
     total |-> to_decimal(find_amount(extraction_lines)),
     items |-> extract_line_items_from_text(extraction_lines),
     seller |-> Seller(d.lines)]

NoParsed ==
    [invoice_no |-> None, customer_name |-> None, total |-> None, items |-> <<>>,
     seller |-> [seller_name |-> None, seller_address |-> None, seller_email |-> None]]

\* ------------------------------------------------------------ extract_from_bytes: the record
\* "x if x else ...": a Decimal is true unless it is zero
Truthy(dec) == dec # None /\ dec[1] # 0

\* a slip of line 879: the two lists joined
FinalItemsJoined(c_items, p_items) == c_items \o p_items

\* line 879
FinalItems(c_items, p_items) == IF c_items # <<>> THEN c_items ELSE p_items

\* lines 904-911
FormatItem(item) ==
    [description |-> item.description,
     qty |-> item.qty,
     unit |-> item.unit,
     code |-> item.code,
     value |-> IF Truthy(item.value) THEN item.value[1] ELSE 0,
     rate |-> IF Truthy(item.rate) THEN item.rate ELSE None]

FormatItems(items) == [i \in 1..Len(items) |-> FormatItem(items[i])]

\* lines 882-899, the fields has_data reads
Header(p) ==
    [invoice_no |-> p.invoice_no,
     customer_name |-> p.customer_name,
     total |-> IF Truthy(p.total) THEN p.total ELSE None]

\* a slip of lines 914-917: the total left out
HasDataTotalIgnored(header, formatted_items) ==
    \/ header.customer_name # None
    \/ header.invoice_no # None
    \/ Len(formatted_items) > 0

\* lines 914-917
HasData(header, formatted_items) ==
    \/ header.customer_name # None
    \/ header.invoice_no # None
    \/ Len(formatted_items) > 0
    \/ Truthy(header.total)

Success(header, formatted_items, raw) ==
    [success |-> TRUE, error |-> None, message |-> <<"Invoice data extracted successfully">>,
     ocr_available |-> FALSE, header |-> Some(header), items |-> formatted_items,
     raw_text |-> raw]

ParsingFailedNoText(raw) ==
    Failure("parsing_failed", <<"Could not extract structured data from PDF.">>, <<>>)

ParsingFailed(raw) ==
    Failure("parsing_failed", <<"Could not extract structured data from PDF.">>, raw)

\* line 873: parsed = parse_invoice_data(text)
Parse ==
    /\ pc = "efb_parse"
    /\ \/ pc' = "elt_start"
       \/ pc' = Handler("efb_parse")
    /\ UNCHANGED <<inputs, eltLocals, efbLocals, etpLocals, openDocs, exc, history, result>>

\* lines 575-597: items = [], the search for the header line, i = item_section_start + 1
ItemSection ==
    /\ pc = "elt_start"
    /\ line_items' = <<>>
    /\ steps' = <<>>
    /\ \E start \in {ItemSectionStart(ExtractionLines(doc.lines))} :
          IF start = 0
          THEN pc' = "elt_return" /\ UNCHANGED cursor
          ELSE pc' = "elt_loop" /\ cursor' = start + 1
    /\ UNCHANGED <<inputs, efbLocals, etpLocals, openDocs, exc, history, result>>

\* a slip: the line that ended the look-ahead counted as consumed too
LoopStepPastScanEnd(cleaned_lines, i) ==
    IF i > Len(cleaned_lines) THEN [kind |-> "end", lines_consumed |-> 0, item |-> None]
    ELSE IF IsTotalsLine(cleaned_lines[i])
    THEN [kind |-> "break", lines_consumed |-> 0, item |-> None]
    ELSE IF IsTitleLine(cleaned_lines[i])
    THEN [kind |-> "title", lines_consumed |-> 1, item |-> None]
    ELSE IF IsItemStart(cleaned_lines[i])
    THEN [kind |-> "item",
          item |-> parse_item_multiline(cleaned_lines, i).item,
          lines_consumed |-> parse_item_multiline(cleaned_lines, i).lines_consumed + 1]
    ELSE [kind |-> "other", lines_consumed |-> 1, item |-> None]

\* lines 598-619: what one iteration does at line i; "end" is the loop test failing
LoopStep(cleaned_lines, i) ==
    IF i > Len(cleaned_lines) THEN [kind |-> "end", lines_consumed |-> 0, item |-> None]
    ELSE IF IsTotalsLine(cleaned_lines[i])
    THEN [kind |-> "break", lines_consumed |-> 0, item |-> None]
    ELSE IF IsTitleLine(cleaned_lines[i])
    THEN [kind |-> "title", lines_consumed |-> 1, item |-> None]
    ELSE IF IsItemStart(cleaned_lines[i])
    THEN [kind |-> "item"] @@ parse_item_multiline(cleaned_lines, i)
    ELSE [kind |-> "other", lines_consumed |-> 1, item |-> None]

\* lines 598-619: the loop test and one iteration, what it did noted in steps
ItemStep ==
    /\ pc = "elt_loop"
    /\ \E s \in {LoopStep(ExtractionLines(doc.lines), cursor)} :
          IF s.kind = "end"
          THEN pc' = "elt_return" /\ UNCHANGED eltLocals
          ELSE /\ pc' = IF s.kind = "break" THEN "elt_return" ELSE "elt_loop"
               /\ cursor' = cursor + s.lines_consumed
               /\ line_items' = IF s.item # None THEN Append(line_items, s.item[1])
                                ELSE line_items
               /\ steps' = Append(steps, [at |-> cursor, kind |-> s.kind,
                                          lines_consumed |-> s.lines_consumed,
                                          item |-> s.item])
    /\ UNCHANGED <<inputs, efbLocals, etpLocals, openDocs, exc, history, result>>

\* line 621 and lines 536-569: the items go into the dict parse_invoice_data returns
ParseReturn ==
    /\ pc = "elt_return"
    /\ parsed' = [parse_invoice_data(doc) EXCEPT !.items = line_items]
    /\ pc' = "eic_open"
    /\ UNCHANGED <<inputs, eltLocals, etpLocals, openDocs, exc, history, result,
                   coord_items, coord_rows>>

\* lines 114-119: items = [], "if fitz is None: return items", then fitz.open
CoordOpen ==
    /\ pc = "eic_open"
    /\ coord_items' = <<>>
    /\ coord_rows' = <<>>
    /\ IF ~fitzAvail
       THEN /\ pc' = "efb_format"
            /\ UNCHANGED <<page, nPages, openDocs, backendUsed>>
       ELSE /\ backendUsed' = TRUE
            /\ \/ /\ openDocs' = openDocs \cup {"eic"}
                  /\ nPages' = Len(doc.pages)
                  /\ page' = 1
                  /\ pc' = "eic_page"
               \/ /\ pc' = Handler("eic_open")
                  /\ UNCHANGED <<page, nPages, openDocs>>
    /\ UNCHANGED <<inputs, eltLocals, text, fitz_error, pdf2_error, exc, attempts, produced, result, parsed>>

\* lines 120-272: one turn of "for page in doc"
CoordPage ==
    /\ pc = "eic_page"
    /\ IF page > nPages
       THEN /\ pc' = "eic_close"
            /\ UNCHANGED <<page, coord_items, coord_rows>>
       ELSE \/ LET found == PageItems(doc.pages[page]) IN
                 /\ coord_items' = coord_items \o [i \in 1..Len(found) |-> found[i].item]
                 /\ coord_rows' = coord_rows \o
                        [i \in 1..Len(found) |-> [page |-> page, row |-> found[i].row]]
                 /\ page' = page + 1
                 /\ pc' = "eic_page"
            \/ /\ pc' = Handler("eic_page")
               /\ UNCHANGED <<page, coord_items, coord_rows>>
    /\ UNCHANGED <<inputs, eltLocals, text, fitz_error, pdf2_error, nPages, openDocs, exc, history,
                   result, parsed>>

\* lines 274 and 279: doc.close(), return items
CoordClose ==
    /\ pc = "eic_close"
    /\ openDocs' = openDocs \ {"eic"}
    /\ page' = 0
    /\ nPages' = 0
    /\ pc' = "efb_format"
    /\ UNCHANGED <<inputs, eltLocals, efbLocals, text, fitz_error, pdf2_error, exc, history, result>>

\* lines 276-279: except Exception, return items
CoordExcept ==
    /\ pc = "eic_except"
    /\ page' = 0
    /\ nPages' = 0
    /\ pc' = "efb_format"
    /\ UNCHANGED <<inputs, eltLocals, efbLocals, text, fitz_error, pdf2_error, openDocs, exc, history,
                   result>>

\* lines 879-937
Format ==
    /\ pc = "efb_format"
    /\ LET final_items == FinalItems(coord_items, parsed.items)
           header == Header(parsed)
           formatted_items == FormatItems(final_items) IN
         result' = IF HasData(header, formatted_items)
                   THEN Success(header, formatted_items, text)
                   ELSE ParsingFailed(text)
    /\ pc' = "done"
    /\ UNCHANGED <<inputs, eltLocals, efbLocals, etpLocals, openDocs, exc, history>>

\* lines 939-949: except Exception around the parsing
ParseExcept ==
    /\ pc = "efb_parse_except"
    /\ result' = ParsingFailed(text)
    /\ pc' = "done"
    /\ UNCHANGED <<inputs, eltLocals, efbLocals, etpLocals, openDocs, exc, history>>

\* ------------------------------------------------------------ documents
\* all tuples over S of length lo..hi
RECURSIVE Tuples(_, _)
Tuples(S, n) ==
    IF n = 0 THEN {<<>>}
    ELSE {Append(t, e) : t \in Tuples(S, n - 1), e \in S}

TuplesUpTo(S, lo, hi) == UNION {Tuples(S, n) : n \in lo..hi}

HeaderLine == <<"Sr", "Code", "Description", "Type", "Qty", "Rate", "Value">>

\* the x0 of the header words of a table page
ColX(name) ==
    CASE name = "Sr" -> 0 [] name = "Code" -> 10 [] name = "Description" -> 20
      [] name = "Type" -> 30 [] name = "Qty" -> 40 [] name = "Rate" -> 50
      [] name = "Value" -> 60

PdfWord(x, y, t, l) == [x0 |-> x, y0 |-> y, text |-> t, block_no |-> 0, line_no |-> l]

HeaderWords == [i \in 1..Len(HeaderLine) |-> PdfWord(ColX(HeaderLine[i]), 0, HeaderLine[i], 0)]

\* the word of one cell of a body row; the empty string stands for an empty cell
CellWord(name, t, y, l) == IF t = "" THEN <<>> ELSE <<PdfWord(ColX(name) + 1, y, t, l)>>

\* a body row: its cells from left to right, the value cell at its own height
BodyRow(l, desc, qty, rate, value, y, yValue) ==
    CellWord("Sr", "1", y, l) \o CellWord("Code", "550213", y, l)
      \o CellWord("Description", desc, y, l) \o CellWord("Type", "NOS", y, l)
      \o CellWord("Qty", qty, y, l) \o CellWord("Rate", rate, y, l)
      \o CellWord("Value", value, yValue, l)

PageBlank == <<>>
PageOneRow == HeaderWords \o BodyRow(1, "steel", "2", "500.00", "1000", 1, 1)
PageTotals ==
    HeaderWords \o BodyRow(1, "steel", "", "", "4.5", 1, 1)
      \o <<PdfWord(0, 2, "Grand", 2), PdfWord(10, 2, "Total", 2)>>
      \o BodyRow(3, "Service", "1", "", "5.00", 3, 3)

\* the pages of the documents the whole pipeline is run on
NarrowPages == {PageBlank, PageOneRow}

\* the pages put around a page under study
OtherPages == {PageOneRow, PageTotals}

TextNone == << <<"x">> >>
TextZero == << <<"Grand", "Total", "0">> >>
TextTotal == << <<"Grand", "Total", "500.00">> >>
TextItem == <<HeaderLine, <<"1", "550213", "Valve", "NOS", "2", "500.00", "1000">>>>

Document(lines, name, inv, pages) ==
    [lines |-> lines, customer_name |-> name, invoice_no |-> inv, pages |-> pages]

\* the documents the whole pipeline is run on
DocSamples ==
    LET texts == { <<TextNone, None, None>>, <<TextNone, Some("ACME"), None>>,
                   <<TextNone, None, Some("PI-001")>>, <<TextZero, None, None>>,
                   <<TextTotal, None, None>>, <<TextItem, None, None>> } IN
    {Document(t[1], t[2], t[3], ps) : t \in texts, ps \in TuplesUpTo(NarrowPages, 0, MaxPages)}

\* the words an item line of the text is made of
ItemTokens == {"Valve", "NOS", "0", "2", "1500", "4.5", "500.00", "-5.00", "550213"}

\* documents whose text holds one item line of every make-up
TextDocs ==
    {Document(<<HeaderLine, <<"1">> \o toks>>, None, None, <<>>) :
        toks \in TuplesUpTo(ItemTokens, 1, MaxTokens)}

\* an item line <serial> <code> <description> <unit> <q> <r> <v>
ScenarioLine(desc, unit, q, r, v) == <<"1", "550213">> \o desc \o <<unit, q, r, v>>

ScenarioDescriptions == {<<"Valve">>, <<"Valve", "steel">>, <<"Valve", "2\"">>}
ScenarioUnits == {"NOS", "PCS"}
ScenarioQtys == {"2", "4", "12"}
ScenarioRates == {"500.00", "125000.00"}
ScenarioValues == {"500000.00"}

\* documents whose text holds one such line, with q < r < v
ScenarioDocs ==
    {Document(<<HeaderLine, ScenarioLine(desc, unit, q, r, v)>>, None, None, <<>>) :
        desc \in ScenarioDescriptions, unit \in ScenarioUnits, q \in ScenarioQtys,
        r \in ScenarioRates, v \in ScenarioValues}

\* the lines a text is made of below its header line
LineSamples ==
    { <<"1", "Valve", "500.00">>, <<"4", "NOS">>, <<"999", "NOS">>,
      <<"x">>, <<"Lorem">>, <<"Qty">>,
      <<"Grand", "Total", "500.00">>, <<"Page", "1">> }

\* documents whose text is the header line and up to MaxLines such lines
LineDocs ==
    {Document(<<HeaderLine>> \o ls, None, None, <<>>) :
        ls \in TuplesUpTo(LineSamples, 1, MaxLines)}

\* a page whose one body row has a description of more than 255 characters
LongPage ==
    HeaderWords \o BodyRow(1, "Lorem", "2", "", "5.00", 1, 1)
      \o <<PdfWord(ColX("Description") + 2, 1, "Lorem", 1)>>

LongDocs == {Document(TextItem, None, None, <<LongPage>>)}

\* a page whose header has no Sr word: the serial number of its body row lies 9 units
\* left of the leftmost header word, Code
MarginPage == Tail(HeaderWords) \o BodyRow(1, "Valve", "2", "", "5.00", 1, 1)

MarginDocs == {Document(TextItem, None, None, <<MarginPage>>)}

\* a text and a page with a totals line above the header line, and one between two items
TotalsText ==
    << <<"Page", "1">>, HeaderLine, <<"1", "Valve", "500.00">>,
       <<"Grand", "Total", "500.00">>, <<"1", "Valve", "500.00">> >>

TotalsRow(y) == <<PdfWord(0, y, "Grand", y), PdfWord(10, y, "Total", y)>>

TotalsFirstPage ==
    TotalsRow(0) \o [i \in 1..Len(HeaderLine) |-> PdfWord(ColX(HeaderLine[i]), 1, HeaderLine[i], 1)]
      \o BodyRow(2, "Valve", "2", "", "5.00", 2, 2) \o TotalsRow(3)
      \o BodyRow(4, "steel", "2", "", "5.00", 4, 4)

TotalsDocs == {Document(TotalsText, None, None, <<TotalsFirstPage>>)}

\* the lines of the top of a text: the anchor line, a name, an e-mail address
TopSamples == { <<"Proforma", "Invoice">>, <<"Service">>, <<"a@b.c">> }

\* documents whose text is up to MaxLines such lines
AnchorDocs ==
    {Document(ls, None, None, <<>>) : ls \in TuplesUpTo(TopSamples, 1, MaxLines)}

QtyCells == {"", "0", "2", "1500", "75000", "-", "4.5", "Valve"}
RateCells == {"", "0", "4.5", "-5.00", "-"}
ValueCells == {"", "0", "500.00", "-5.00"}

\* pages with one body row of every make-up
CellPages ==
    {HeaderWords \o BodyRow(1, desc, qty, rate, value, 1, 1) :
        desc \in {"", "Valve"}, qty \in QtyCells, rate \in RateCells, value \in ValueCells}

\* pages with two body rows whose words lie at every height
OrderPages ==
    {HeaderWords \o BodyRow(1, "Valve", "", "", "5.00", ys[1], ys[2])
                 \o BodyRow(2, "steel", "", "", "4.5", ys[3], ys[4]) :
        ys \in Tuples(1..MaxY, 4)}

\* documents with one such page before or after pages of the other documents
TableDocs ==
    {Document(TextItem, None, None, IF first THEN <<p>> \o ps ELSE ps \o <<p>>) :
        p \in CellPages \cup OrderPages,
        ps \in TuplesUpTo(OtherPages, 0, MaxPages - 1),
        first \in BOOLEAN}

\* ------------------------------------------------------------ specification
\* the state a call of extract_from_bytes starts in
Start ==
    /\ pc = "efb_check"
    /\ nPages = 0
    /\ text = <<>>
    /\ fitz_error = None
    /\ pdf2_error = None
    /\ page = 0
    /\ openDocs = {}
    /\ exc = None
    /\ attempts = <<>>
    /\ produced = <<>>
    /\ backendUsed = FALSE
    /\ result = NoResult
    /\ parsed = NoParsed
    /\ coord_items = <<>>
    /\ coord_rows = <<>>
    /\ cursor = 0
    /\ line_items = <<>>
    /\ steps = <<>>

Init ==
    /\ \E s \in InputSamples : file_bytes = s[1] /\ filename = s[2]
    /\ doc \in DocSamples
    /\ fitzAvail \in BOOLEAN
    /\ pdf2Avail \in BOOLEAN
    /\ Start

Next ==
    \/ CheckInput
    \/ FitzOpen \/ FitzPage \/ FitzClose \/ FitzExcept
    \/ Pdf2Open \/ Pdf2Page \/ Pdf2Check \/ Pdf2Except
    \/ TextRaise \/ TextExcept \/ Validate
    \/ Parse \/ ItemSection \/ ItemStep \/ ParseReturn
    \/ CoordOpen \/ CoordPage \/ CoordClose \/ CoordExcept
    \/ Format \/ ParseExcept

Spec == Init /\ [][Next]_vars


\* the input check alone, on every sampled buffer with every sampled filename
InitCheck ==
    /\ file_bytes \in ByteInputs
    /\ filename \in Filenames
    /\ doc = Document(TextNone, None, None, <<>>)
    /\ fitzAvail = TRUE
    /\ pdf2Avail = TRUE
    /\ Start

SpecCheck == InitCheck /\ [][CheckInput]_vars

\* the parsing alone, from the state extract_from_bytes is in once it has the text
InitItems ==
    /\ file_bytes = PdfPrefix(MaxBytes)
    /\ filename = <<"a", ".", "p", "d", "f">>
    /\ fitzAvail = TRUE
    /\ pdf2Avail = TRUE
    /\ doc \in TextDocs \cup TableDocs \cup ScenarioDocs \cup LineDocs \cup LongDocs
                 \cup MarginDocs \cup TotalsDocs \cup AnchorDocs
    /\ pc = "efb_parse"
    /\ nPages = 0
    /\ text = <<"a", "\n">>
    /\ fitz_error = None
    /\ pdf2_error = None
    /\ page = 0
    /\ openDocs = {}
    /\ exc = None
    /\ attempts = <<>>
    /\ produced = <<>>
    /\ backendUsed = TRUE
    /\ result = NoResult
    /\ parsed = NoParsed
    /\ coord_items = <<>>
    /\ coord_rows = <<>>
    /\ cursor = 0
    /\ line_items = <<>>
    /\ steps = <<>>

NextItems ==
    \/ Parse \/ ItemSection \/ ItemStep \/ ParseReturn
    \/ CoordOpen \/ CoordPage \/ CoordClose \/ CoordExcept
    \/ Format \/ ParseExcept

SpecItems == InitItems /\ [][NextItems]_vars


\* ------------------------------------------------------------ properties
\* the items of every extractor and of the record, with where they are
AllItems ==
    {[at |-> "table", item |-> coord_items[i]] : i \in 1..Len(coord_items)}
      \cup {[at |-> "text", item |-> parsed.items[i]] : i \in 1..Len(parsed.items)}
      \cup {[at |-> "record", item |-> result.items[i]] : i \in 1..Len(result.items)}

(* C1: every item of the table extractor, of the text line-item parser and of   *)
(* the returned record has a qty that is an integer of at least 1.              *)
QtyAtLeastOne == \A e \in AllItems : e.item.qty \in Nat /\ e.item.qty >= 1

\* C1 seen: a table row whose Qty cell reads 0 is in the record with qty 1
QtyZeroBecomesOne ==
    /\ pc = "done"
    /\ doc.pages = <<HeaderWords \o BodyRow(1, "Valve", "0", "4.5", "500.00", 1, 1)>>
    /\ Len(result.items) = 1
    /\ result.items[1].qty = 1

(* C2: the rate and the value of every item of the table extractor, of the      *)
(* text line-item parser and of the returned record are non-negative when       *)
(* present.                                                                     *)
AmountsNonNegative ==
    \A e \in AllItems :
        /\ IF e.at = "record" THEN e.item.value >= 0
           ELSE e.item.value = None \/ e.item.value[1] >= 0
        /\ e.item.rate = None \/ e.item.rate[1] >= 0

\* ------------------------------------------------------------ C3
ErrorCodes ==
    {"empty_file", "image_file_not_supported", "unsupported_file_type",
     "pdf_extraction_failed", "no_text_extracted", "parsing_failed"}

(* C3: no exception escapes extract_from_bytes, and every record it returns     *)
(* with success = false carries one error code of the six, a message and        *)
(* ocr_available = false.                                                       *)
NoExceptionEscapes ==
    /\ pc # "escaped"
    /\ pc = "done" /\ ~result.success =>
          /\ result.error # None
          /\ result.error[1] \in ErrorCodes
          /\ result.message # <<>>
          /\ result.ocr_available = FALSE

\* C3 seen: both backends raised and the record says pdf_extraction_failed
BackendErrorReported ==
    /\ pc = "done"
    /\ result.error = Some("pdf_extraction_failed")
    /\ result.message = <<"Could not extract text from PDF", "PDF extraction failed",
                          "str(e)", "str(e)">>

\* ------------------------------------------------------------ C4
\* the record is one made after the text was extracted
AfterText == pc = "done" /\ (result.success \/ result.error = Some("parsing_failed"))

SomeItem == coord_items # <<>> \/ parsed.items # <<>>

(* C4 as claimed: once the text is extracted and parsing raised no error, the   *)
(* record has success = true exactly if customer_name, invoice_no or total is   *)
(* present or the final item list is not empty, and says parsing_failed         *)
(* otherwise.                                                                   *)
SuccessIffAnyFieldPresent ==
    AfterText =>
        (result.success <=> \/ parsed.customer_name # None
                            \/ parsed.invoice_no # None
                            \/ parsed.total # None
                            \/ SomeItem)

(* C4 amended: the same, with a total counting only when it is not zero.        *)
SuccessIffAnyFieldTrue ==
    AfterText =>
        /\ result.success <=> \/ parsed.customer_name # None
                              \/ parsed.invoice_no # None
                              \/ (parsed.total # None /\ parsed.total[1] # 0)
                              \/ SomeItem
        /\ ~result.success => result.error = Some("parsing_failed")

\* C4 seen: a document whose only field is a total of 0 is reported parsing_failed
ZeroTotalFails ==
    /\ pc = "done"
    /\ parsed.total = Some(0)
    /\ parsed.customer_name = None /\ parsed.invoice_no = None /\ ~SomeItem
    /\ result.error = Some("parsing_failed")

\* ------------------------------------------------------------ C5
RejectionCodes == {"empty_file", "image_file_not_supported", "unsupported_file_type"}

Rejected == pc = "done" /\ result.error # None /\ result.error[1] \in RejectionCodes

NoBackendOnRejection == Rejected => ~backendUsed /\ openDocs = {}

(* C5 as claimed: an empty buffer is answered empty_file, a filename with an    *)
(* image extension image_file_not_supported with ocr_available = false, and     *)
(* no PDF backend is opened or called before a rejection is returned.           *)
RejectionBeforeExtraction ==
    /\ pc = "done" /\ file_bytes = <<>> => result.error = Some("empty_file")
    /\ pc = "done" /\ IsImage(filename) =>
          result.error = Some("image_file_not_supported") /\ ~result.ocr_available
    /\ NoBackendOnRejection

(* C5 amended: the image answer is that of a buffer that is not empty; an       *)
(* empty buffer is answered empty_file whatever its filename.                   *)
RejectionBeforeExtractionNonEmpty ==
    /\ pc # "efb_check" /\ file_bytes = <<>> => pc = "done" /\ result.error = Some("empty_file")
    /\ pc # "efb_check" /\ file_bytes # <<>> /\ IsImage(filename) =>
          /\ pc = "done"
          /\ result.error = Some("image_file_not_supported")
          /\ ~result.ocr_available
    /\ NoBackendOnRejection

\* C5 seen: an empty buffer named a.png is answered empty_file, no backend used
EmptyImageRejected ==
    /\ pc = "done"
    /\ file_bytes = <<>>
    /\ IsImage(filename)
    /\ result.error = Some("empty_file")
    /\ ~backendUsed

\* ------------------------------------------------------------ C6
OnPdfPath == pc = "etp_fitz_open" /\ result = NoResult

(* C6: an input that is not empty goes down the PDF path if its filename ends   *)
(* in .pdf or its bytes begin with %PDF, a buffer of exactly those 4 bytes      *)
(* included; one with an image extension is answered                            *)
(* image_file_not_supported; every other one unsupported_file_type.             *)
TypeSniffing ==
    pc # "efb_check" /\ file_bytes # <<>> =>
        IF IsImage(filename)
        THEN pc = "done" /\ result.error = Some("image_file_not_supported")
        ELSE IF EndsWith(LowerStr(filename), <<".", "p", "d", "f">>)
                  \/ (Len(file_bytes) >= 4 /\ SubSeq(file_bytes, 1, 4) = Magic)
        THEN OnPdfPath
        ELSE pc = "done" /\ result.error = Some("unsupported_file_type")

\* ------------------------------------------------------------ C7
(* C7: the backends are tried in the order PyMuPDF, PyPDF2; PyPDF2 only after   *)
(* PyMuPDF was unavailable, raised or produced blank text; the text returned    *)
(* is what the one backend that succeeded produced, and nothing else.           *)
TextFromOneBackend ==
    /\ attempts \in {<<>>, <<"fitz">>, <<"pypdf2">>, <<"fitz", "pypdf2">>}
    /\ pc = "efb_validate" =>
          /\ attempts # <<>>
          /\ ~IsBlank(text)
          /\ text = produced

\* ------------------------------------------------------------ C8
(* C8: every document handle opened during an extraction is closed again: none  *)
(* is open once extract_from_bytes has returned.                                *)
HandlesClosed == pc = "done" => openDocs = {}

\* ------------------------------------------------------------ C9
(* C9: the items of a successful record are the table extractor's items when    *)
(* it returned any, and the text line-item parser's items otherwise; never a    *)
(* mix of the two.                                                              *)
ItemsFromOneExtractor ==
    pc = "done" /\ result.success =>
        LET source == IF coord_items # <<>> THEN coord_items ELSE parsed.items IN
        /\ Len(result.items) = Len(source)
        /\ \A i \in 1..Len(source) :
              /\ result.items[i].description = source[i].description
              /\ result.items[i].qty = source[i].qty
              /\ result.items[i].code = source[i].code
              /\ result.items[i].unit = source[i].unit

\* C9 seen: both extractors found items and the record holds the table's
TableItemsPreferred ==
    /\ pc = "done"
    /\ result.success
    /\ parsed.items # <<>>
    /\ coord_items # <<>>
    /\ coord_items[1].description # parsed.items[1].description
    /\ result.items[1].description = coord_items[1].description

\* ------------------------------------------------------------ C10
\* the smallest y0 of a row's words
MinY0(lw) == CHOOSE y \in {lw[i].y0 : i \in 1..Len(lw)} : \A i \in 1..Len(lw) : y <= lw[i].y0

\* the items are one for each row noted, in the same order
OneItemPerRow ==
    /\ Len(coord_items) = Len(coord_rows)
    /\ \A i \in 1..Len(coord_rows) :
          /\ coord_items[i].description.words # <<>>
          /\ Range(coord_items[i].description.words) \subseteq Range(Texts(coord_rows[i].row.lw))

(* C10 as claimed: the items come in the order of their rows, the rows of a     *)
(* page ordered by each row's smallest y0, the pages in page order.             *)
RowsByMinimumY0 ==
    /\ OneItemPerRow
    /\ \A i, j \in 1..Len(coord_rows) : i < j =>
          \/ coord_rows[i].page < coord_rows[j].page
          \/ /\ coord_rows[i].page = coord_rows[j].page
             /\ MinY0(coord_rows[i].row.lw) <= MinY0(coord_rows[j].row.lw)

(* C10 amended: the rows of a page are ordered by the y0 of each row's          *)
(* leftmost word, rows that agree in it staying in the order the page first     *)
(* names them; the pages in page order.                                         *)
RowsByLeftmostY0 ==
    /\ OneItemPerRow
    /\ \A i, j \in 1..Len(coord_rows) : i < j =>
          \/ coord_rows[i].page < coord_rows[j].page
          \/ /\ coord_rows[i].page = coord_rows[j].page
             /\ \/ coord_rows[i].row.lw[1].y0 < coord_rows[j].row.lw[1].y0
                \/ /\ coord_rows[i].row.lw[1].y0 = coord_rows[j].row.lw[1].y0
                   /\ coord_rows[i].row.enc < coord_rows[j].row.enc

\* C10 seen: a row emitted first although a later row has a word higher up the page
LowerRowFirst ==
    /\ pc = "done"
    /\ Len(coord_rows) >= 2
    /\ coord_rows[1].page = coord_rows[2].page
    /\ MinY0(coord_rows[1].row.lw) > MinY0(coord_rows[2].row.lw)
    /\ result.success
    /\ result.items[1].description = coord_items[1].description

\* ------------------------------------------------------------ C11
(* C11: an item line <serial> <code> <description> <unit> <q> <r> <v>, q a    *)
(* whole number with 0 < q < 1000 and q < v, is parsed into code, description *)
(* and unit as written and qty = q, rate = r, value = v, also when the        *)
(* description holds a digit run before the unit keyword.                     *)
ScenarioFieldsAsWritten ==
    \A desc \in ScenarioDescriptions, unit \in ScenarioUnits, q \in ScenarioQtys,
       r \in ScenarioRates, v \in ScenarioValues :
        (/\ doc.lines = <<HeaderLine, ScenarioLine(desc, unit, q, r, v)>>
         /\ pc = "elt_return")
        => /\ Len(line_items) = 1
           /\ line_items[1].code = Some("550213")
           /\ line_items[1].description.words = desc
           /\ line_items[1].unit = Some(<<unit>>)
           /\ line_items[1].qty * 100 = Vocab[q].num[1]
           /\ line_items[1].rate = Vocab[r].num
           /\ line_items[1].value = Vocab[v].num

\* ------------------------------------------------------------ C12
\* the items the iterations noted in steps have yielded, in order
RECURSIVE Emitted(_)
Emitted(ss) ==
    IF ss = <<>> THEN <<>>
    ELSE (IF Head(ss).item # None THEN <<Head(ss).item[1]>> ELSE <<>>) \o Emitted(Tail(ss))

\* the iterations that parsed an item and discarded it
Discards == {k \in 1..Len(steps) : steps[k].kind = "item" /\ steps[k].item = None}

(* C12: every item of either extractor has a description that is not empty   *)
(* and has at most 255 characters; a text item that is discarded is never     *)
(* appended, and the cursor still moves over the lines it consumed.           *)
DescriptionsKept ==
    /\ \A it \in Range(line_items) \cup Range(coord_items) :
          /\ it.description.words # <<>>
          /\ it.description.chars >= 1
          /\ it.description.chars <= 255
    /\ \A it \in Range(line_items) : it.description.chars >= 2
    /\ pc \in {"elt_loop", "elt_return"} => line_items = Emitted(steps)
    /\ \A k \in Discards :
          /\ steps[k].lines_consumed >= 1
          /\ k < Len(steps) => steps[k + 1].at = steps[k].at + steps[k].lines_consumed
          /\ k = Len(steps) /\ pc = "elt_loop"
               => cursor = steps[k].at + steps[k].lines_consumed

\* a discarded item took a continuation line with it, and the next line gave an item
DiscardConsumedLines ==
    /\ pc = "elt_return"
    /\ \E k \in Discards :
          /\ steps[k].lines_consumed = 2
          /\ k < Len(steps)
          /\ steps[k + 1].item # None

\* ------------------------------------------------------------ C13
\* the error codes of the records returned before a text was obtained
EarlyErrors ==
    {"empty_file", "image_file_not_supported", "unsupported_file_type",
     "pdf_extraction_failed", "no_text_extracted"}

(* C13: a returned record has the extracted text as raw_text exactly when it is *)
(* a success or a parsing_failed record, a parsing error that was caught        *)
(* included, and the empty string under each of the five earlier error codes.   *)
RawTextWhenExtracted ==
    pc = "done" =>
        /\ result.success \/ result.error \in {Some(e) : e \in EarlyErrors \cup {"parsing_failed"}}
        /\ (result.error # None /\ result.error[1] \in EarlyErrors) => result.raw_text = <<>>
        /\ (result.success \/ result.error = Some("parsing_failed"))
             => /\ result.raw_text = text
                /\ ~IsBlank(result.raw_text)

\* a document with a customer name whose parsing raised: parsing_failed, with the text
CaughtErrorKeepsText ==
    /\ pc = "done"
    /\ doc.customer_name # None
    /\ parsed = NoParsed
    /\ result.error = Some("parsing_failed")
    /\ result.raw_text = text
    /\ result.raw_text # <<>>

\* ------------------------------------------------------------ C14, C15
\* the plain numbers N of an item line: those after the serial number and the code
NumbersOfLine(line) ==
    LET rest == Tail(line) IN
    PlainNumbers(IF Len(rest) >= 2 /\ IsCodeWord(rest[1]) THEN Tail(rest) ELSE rest)

\* the iterations that yielded an item
Yields == {k \in 1..Len(steps) : steps[k].item # None}
YieldNumbers(k) == NumbersOfLine(ExtractionLines(doc.lines)[steps[k].at])

\* n, in hundredths, is a whole number strictly between 0 and 1000
WholeBelow1000(n) == \E q \in 1..999 : n = 100 * q

\* the places of N that hold a quantity candidate
Candidates(N) == {i \in 1..Len(N) : WholeBelow1000(N[i]) /\ N[i] < SeqMax(N)}

\* the places of N that hold a rate, c being the quantity's place
RatePlaces(N, c) == {i \in 1..Len(N) : N[i] # N[c] /\ N[i] # SeqMax(N) /\ N[i] > 0}

(* C14: with three or more plain numbers N, the first whole number of N that is *)
(* strictly between 0 and 1000 and less than the largest is the quantity, the   *)
(* largest the value, and the rate the first positive number that is neither,   *)
(* or largest / quantity; with no such number qty is 1, the value the last      *)
(* number and the rate the one before it.                                       *)
RolesOfThreeOrMore ==
    \A k \in Yields :
        LET N == YieldNumbers(k)
            it == steps[k].item[1]
        IN  Len(N) >= 3 =>
              IF Candidates(N) # {}
              THEN LET c == First(Candidates(N)) IN
                   /\ it.qty * 100 = N[c]
                   /\ it.value = Some(SeqMax(N))
                   /\ it.rate = IF RatePlaces(N, c) # {}
                                THEN Some(N[First(RatePlaces(N, c))])
                                ELSE Some(SeqMax(N) \div it.qty)
              ELSE /\ it.qty = 1
                   /\ it.value = Some(N[Len(N)])
                   /\ it.rate = Some(N[Len(N) - 1])

\* an item of three numbers whose rate is the largest divided by the quantity
RateByDivision ==
    \E k \in Yields :
        LET N == YieldNumbers(k) IN
        /\ Len(N) >= 3
        /\ Candidates(N) # {}
        /\ RatePlaces(N, First(Candidates(N))) = {}
        /\ steps[k].item[1].qty > 1
        /\ steps[k].item[1].rate = Some(SeqMax(N) \div steps[k].item[1].qty)

(* C15: with no plain number, value and rate are unset and qty is 1; with one,  *)
(* it is the value; with two, the first is the quantity and the second the      *)
(* value if the first is whole, strictly between 0 and 1000 and less than the   *)
(* second, otherwise the larger is the value and qty is 1; the rate is unset.   *)
RolesOfFewerThanThree ==
    \A k \in Yields :
        LET N == YieldNumbers(k)
            it == steps[k].item[1]
        IN  Len(N) < 3 =>
              /\ it.rate = None
              /\ Len(N) = 0 => it.value = None /\ it.qty = 1
              /\ Len(N) = 1 => it.value = Some(N[1]) /\ it.qty = 1
              /\ Len(N) = 2 =>
                    IF WholeBelow1000(N[1]) /\ N[1] < N[2]
                    THEN it.qty * 100 = N[1] /\ it.value = Some(N[2])
                    ELSE /\ it.qty = 1
                         /\ it.value = Some(IF N[1] >= N[2] THEN N[1] ELSE N[2])

\* an item of two numbers whose first is not a quantity: the larger is the value
LargerOfTwoIsValue ==
    \E k \in Yields :
        LET N == YieldNumbers(k) IN
        /\ Len(N) = 2
        /\ N[1] > N[2]
        /\ WholeBelow1000(N[2])
        /\ steps[k].item[1].qty = 1
        /\ steps[k].item[1].value = Some(N[1])

\* ------------------------------------------------------------ C16
\* the column ranges the extractor builds on page p
PageRanges(p) ==
    LET ordered_lines == OrderedLines(doc.pages[p]) IN
    Ranges(Columns(ordered_lines[HeaderIdx(ordered_lines)].lw))

\* the ranges that hold the x0 of word w
RangesHolding(ranges, w) ==
    {j \in 1..Len(ranges) : ranges[j].left2 <= 2 * w.x0 /\ 2 * w.x0 < ranges[j].right2}

(* C16: the column ranges of a page are contiguous and do not overlap, and      *)
(* every word of a body row falls in exactly one of them, also a word that lies *)
(* more than a few units left of the leftmost header word.                      *)
ColumnsCoverRows ==
    \A i \in 1..Len(coord_rows) :
        LET ranges == PageRanges(coord_rows[i].page) IN
        /\ \A j \in 1..(Len(ranges) - 1) : ranges[j].right2 = ranges[j + 1].left2
        /\ \A j \in 1..Len(ranges) : ranges[j].left2 <= ranges[j].right2
        /\ \A w \in Range(coord_rows[i].row.lw) : Cardinality(RangesHolding(ranges, w)) = 1

\* ------------------------------------------------------------ C17
\* the words of a row hold a totals keyword: net value, grand total, "total:"
HasTotalsKeyword(ws) ==
    \E i \in 1..Len(ws) :
        \/ ws[i] = "Total:"
        \/ i < Len(ws) /\ <<ws[i], ws[i + 1]>> \in {<<"Net", "Value">>, <<"Grand", "Total">>}

\* the words of a line hold one, or the page-break keyword: Page and a number
HasStopKeyword(ws) ==
    \/ HasTotalsKeyword(ws)
    \/ \E i \in 1..(Len(ws) - 1) : ws[i] = "Page" /\ Vocab[ws[i + 1]].d0

\* the place of row among the rows of a page
RowPlace(ordered_lines, row) ==
    CHOOSE j \in 1..Len(ordered_lines) : ordered_lines[j] = row

\* no row of the page from place lo to the emitted row has a totals keyword
NoTotalsRowFrom(ordered_lines, lo, row) ==
    \A j \in lo..RowPlace(ordered_lines, row) :
        ~HasTotalsKeyword(Texts(ordered_lines[j].lw))

\* no line from place lo to the last line iteration k took has a stop keyword
NoStopLineFrom(lo, k) ==
    \A j \in lo..(steps[k].at + steps[k].lines_consumed - 1) :
        ~HasStopKeyword(ExtractionLines(doc.lines)[j])

(* C17 as claimed: the table extractor emits no item from the first row of a    *)
(* page that matches a totals keyword or from a row after it; the text parser   *)
(* emits no item from the first line matching a totals, summary or page-break   *)
(* keyword or from a later line, and appends no such line to a description.     *)
StopAtFirstTotals ==
    /\ \A i \in 1..Len(coord_rows) :
          NoTotalsRowFrom(OrderedLines(doc.pages[coord_rows[i].page]), 1, coord_rows[i].row)
    /\ \A k \in Yields : NoStopLineFrom(1, k)

(* C17 amended: the same, for the first such row after the header row and the   *)
(* first such line after the header line.                                       *)
StopAtFirstTotalsAfterHeader ==
    /\ \A i \in 1..Len(coord_rows) :
          LET ordered_lines == OrderedLines(doc.pages[coord_rows[i].page]) IN
          NoTotalsRowFrom(ordered_lines, HeaderIdx(ordered_lines) + 1, coord_rows[i].row)
    /\ \A k \in Yields : NoStopLineFrom(ItemSectionStart(ExtractionLines(doc.lines)) + 1, k)

\* both extractors gave the item above the totals line and not the one below it
ItemBelowTotalsLeftOut ==
    /\ pc = "done"
    /\ doc \in TotalsDocs
    /\ Len(line_items) = 1
    /\ Len(coord_items) = 1
    /\ coord_items[1].description.words = <<"Valve">>
    /\ steps[Len(steps)].kind = "break"

\* ------------------------------------------------------------ C18
\* an item line less its serial number and its code
RestOfItemLine(line) ==
    LET rest == Tail(line) IN
    IF Len(rest) >= 2 /\ IsCodeWord(rest[1]) THEN Tail(rest) ELSE rest

\* the line starts with a number that a unit keyword follows
NumberThenUnit(line) ==
    Len(line) >= 2 /\ Vocab[line[1]].digits /\ line[2] \in {"PCS", "NOS"}

(* C18: when the item line has no unit and the line after the item starts with  *)
(* a number followed by a unit keyword, that line gives the item its unit and   *)
(* is not added to the description, whatever the number of digits, as in        *)
(* "4 NOS".                                                                     *)
UnitLineSuppliesUnit ==
    \A k \in Yields :
        LET cleaned_lines == ExtractionLines(doc.lines)
            first == steps[k].at
            after == first + steps[k].lines_consumed
        IN  /\ \A j \in (first + 1)..(after - 1) : ~NumberThenUnit(cleaned_lines[j])
            /\ (/\ after <= Len(cleaned_lines)
                /\ NumberThenUnit(cleaned_lines[after])
                /\ UnitAt(RestOfItemLine(cleaned_lines[first])) = 0)
               => steps[k].item[1].unit = Some(<<cleaned_lines[after][2]>>)

\* ------------------------------------------------------------ C19
\* the places of the anchor lines of the text
AnchorPlaces == {i \in 1..Len(doc.lines) : IsAnchorLine(doc.lines[i])}

\* the lines strictly before the first anchor line
LinesBeforeAnchor == SubSeq(doc.lines, 1, First(AnchorPlaces) - 1)

(* C19: the seller name, address and e-mail address come from the lines         *)
(* strictly before the anchor line only; when the anchor is the first line no   *)
(* seller field is taken from it or from a line after it.                       *)
SellerFromLinesBeforeAnchor ==
    (pc = "eic_open" /\ AnchorPlaces # {}) =>
        LET before == LinesBeforeAnchor IN
        /\ parsed.seller.seller_name = IF before # <<>> THEN Some(before[1]) ELSE None
        /\ parsed.seller.seller_address =
              IF Len(before) > 1 THEN Some(Flatten(Tail(before))) ELSE None
        /\ parsed.seller.seller_email # None
              => parsed.seller.seller_email[1] \in Range(Flatten(before))

\* ------------------------------------------------------------ C20
\* the lines iteration k moved the cursor over, the line it looked at left out
LinesTaken(k) ==
    SubSeq(ExtractionLines(doc.lines), steps[k].at + 1,
           steps[k].at + steps[k].lines_consumed - 1)

(* C20: the loop of the text parser ends: every iteration that does not stop    *)
(* the loop moves the cursor forward, by the lines parse_item_multiline reports *)
(* on an item-start line, which are at least 1 also for a discarded item, and   *)
(* by exactly 1 on any other line; the cursor stays within one place of the     *)
(* last line, and the lines it passes without their being looked at are the     *)
(* continuation lines of an item.                                               *)
CursorAdvances ==
    LET cleaned_lines == ExtractionLines(doc.lines) IN
    /\ pc = "elt_loop" =>
          /\ cursor >= 1
          /\ cursor <= Len(cleaned_lines) + 1
          /\ steps # <<>> =>
                cursor = steps[Len(steps)].at + steps[Len(steps)].lines_consumed
    /\ \A k \in 1..Len(steps) :
          /\ steps[k].at \in 1..Len(cleaned_lines)
          /\ k = 1 => steps[k].at = ItemSectionStart(cleaned_lines) + 1
          /\ k > 1 => /\ steps[k].at > steps[k - 1].at
                      /\ steps[k].at = steps[k - 1].at + steps[k - 1].lines_consumed
          /\ steps[k].kind = "break" => k = Len(steps) /\ pc # "elt_loop"
          /\ steps[k].kind \in {"title", "other"} => steps[k].lines_consumed = 1
          /\ steps[k].kind = "item" =>
                /\ IsItemStart(cleaned_lines[steps[k].at])
                /\ steps[k].lines_consumed >= 1
                /\ steps[k].at + steps[k].lines_consumed <= Len(cleaned_lines) + 1
                /\ \A j \in 1..Len(LinesTaken(k)) :
                      ~IsItemStart(LinesTaken(k)[j]) /\ ~HasStopKeyword(LinesTaken(k)[j])
                /\ steps[k].item # None =>
                      steps[k].item[1].description.words =
                          LineDescription(RestOfItemLine(cleaned_lines[steps[k].at]))
                            \o Flatten(LinesTaken(k))

\* the loop ran to the end of the text over an item of two lines and a line of noise
LoopRanToTheEnd ==
    /\ pc = "elt_return"
    /\ steps # <<>>
    /\ steps[Len(steps)].at + steps[Len(steps)].lines_consumed
          = Len(ExtractionLines(doc.lines)) + 1
    /\ \E k \in Yields : steps[k].lines_consumed = 2
    /\ \E k \in 1..Len(steps) : steps[k].kind = "other"

\* ------------------------------------------------------------ C21
\* the unit keyword the item line of iteration k has, None for none
UnitOfStartLine(k) ==
    LET rest == RestOfItemLine(ExtractionLines(doc.lines)[steps[k].at]) IN
    IF UnitAt(rest) = 0 THEN None ELSE Some(<<rest[UnitAt(rest)]>>)

\* the place of the line that ended the look-ahead of iteration k
ScanEnd(k) == steps[k].at + steps[k].lines_consumed

\* no iteration takes lines beyond the last line of the text
LinesWithinText ==
    \A k \in 1..Len(steps) : ScanEnd(k) <= Len(ExtractionLines(doc.lines)) + 1

\* the description of an item is made of its start line and the lines taken with it
DescriptionFromOwnLines ==
    \A k \in Yields :
        steps[k].item[1].description.words =
            LineDescription(RestOfItemLine(ExtractionLines(doc.lines)[steps[k].at]))
              \o Flatten(LinesTaken(k))

\* no line is the start or a continuation line of two iterations
LinesOfOneIteration ==
    \A k1, k2 \in 1..Len(steps) : k1 < k2 => ScanEnd(k1) <= steps[k2].at

\* the line that ended a look-ahead is the line the main loop looks at next
ScanEndExaminedNext ==
    \A k \in Yields :
        /\ k < Len(steps) => steps[k + 1].at = ScanEnd(k)
        /\ (k = Len(steps) /\ pc = "elt_loop") => cursor = ScanEnd(k)

(* C21 as claimed: a line of the text is the start line of one item, or a       *)
(* continuation line appended to the description of the one item before it, or  *)
(* gives nothing to any item; the line that ends a look-ahead is not consumed    *)
(* and is the next line the main loop looks at.                                  *)
LineInOneItemOrNone ==
    /\ LinesWithinText
    /\ DescriptionFromOwnLines
    /\ LinesOfOneIteration
    /\ ScanEndExaminedNext
    /\ \A k \in Yields : steps[k].item[1].unit = UnitOfStartLine(k)

(* C21 amended: the same, but the line that ends a look-ahead may give its unit  *)
(* keyword to the item before it, when it starts with a number followed by a     *)
(* unit keyword and the item line has no unit; it is still not consumed, is no   *)
(* item start and so gives nothing to any other item.                            *)
LineInOneItemOrUnitOnly ==
    /\ LinesWithinText
    /\ DescriptionFromOwnLines
    /\ LinesOfOneIteration
    /\ ScanEndExaminedNext
    /\ \A k \in Yields :
          \/ steps[k].item[1].unit = UnitOfStartLine(k)
          \/ /\ UnitOfStartLine(k) = None
             /\ ScanEnd(k) <= Len(ExtractionLines(doc.lines))
             /\ NumberThenUnit(ExtractionLines(doc.lines)[ScanEnd(k)])
             /\ ~IsItemStart(ExtractionLines(doc.lines)[ScanEnd(k)])
             /\ steps[k].item[1].unit = Some(<<ExtractionLines(doc.lines)[ScanEnd(k)][2]>>)
             /\ k < Len(steps) => steps[k + 1].kind = "other"

\* an item of two lines took its unit from the line after them, looked at next as noise
UnitFromScanEnd ==
    /\ pc = "elt_return"
    /\ \E k \in Yields :
          /\ steps[k].lines_consumed = 2
          /\ UnitOfStartLine(k) = None
          /\ steps[k].item[1].unit = Some(<<"NOS">>)
          /\ k < Len(steps)
          /\ steps[k + 1].at = ScanEnd(k)
          /\ steps[k + 1].kind = "other"

\* ------------------------------------------------------------ C22
\* the items of the first n pages of the document
RECURSIVE ItemsUpToPage(_)
ItemsUpToPage(n) ==
    IF n = 0 THEN <<>>
    ELSE LET found == PageItems(doc.pages[n]) IN
         ItemsUpToPage(n - 1) \o [i \in 1..Len(found) |-> found[i].item]

(* C22: an error inside the table extractor does not fail the document: the     *)
(* extractor does not raise and returns the items of the pages before the       *)
(* error, and the record holds that list when it is not empty and the text      *)
(* parser's items when it is empty.                                             *)
TableErrorKeepsDocument ==
    /\ pc # "escaped"
    /\ pc = "efb_parse_except" => (parsed = NoParsed /\ coord_items = <<>>)
    /\ pc = "eic_except" =>
          coord_items = IF page = 0 THEN <<>> ELSE ItemsUpToPage(page - 1)
    /\ pc \in {"efb_format", "done"} =>
          \E n \in 0..Len(doc.pages) : coord_items = ItemsUpToPage(n)
    /\ (pc = "done" /\ result.success) =>
          LET kept == IF coord_items # <<>> THEN coord_items ELSE parsed.items IN
          /\ Len(result.items) = Len(kept)
          /\ \A i \in 1..Len(kept) : result.items[i].description = kept[i].description

\* the second page failed: the record holds the first page's item, not the text's
PartialTableItemsUsed ==
    /\ pc = "done"
    /\ result.success
    /\ Len(doc.pages) = 2
    /\ Len(coord_items) = 1
    /\ coord_items = ItemsUpToPage(1)
    /\ coord_items # ItemsUpToPage(2)
    /\ parsed.items # <<>>
    /\ Len(result.items) = 1
    /\ result.items[1].description = coord_items[1].description
    /\ result.items[1].description # parsed.items[1].description
====
